---- MODULE Spec2Model ----
(***************************************************************************)
(* Model of the Zephyr log parser of app/jack_test/parse_output.py: the    *)
(* stateful line classifier ZephyrOutputParser.parse_line, its handlers    *)
(* and the containers they fill.                                           *)
(*                                                                         *)
(* A line of text is modelled as the sequence of its tokens: the words and *)
(* punctuation marks of the line in order, white space dropped.  A         *)
(* substring test ('Task completed' in line) is a test for a contiguous    *)
(* run of tokens, and a regular expression is a sequence of pattern        *)
(* elements, each a literal token or a character class, searched for with  *)
(* the leftmost, greedy semantics of re.search.                            *)
(***************************************************************************)
EXTENDS Integers, Sequences, FiniteSets, TLC

VARIABLES
    tasks,              \* self.tasks: task name -> record, or 'fault_cycles' -> list
    timing_data,        \* self.timing_data
    scheduler_events,   \* self.scheduler_events
    memory_data,        \* self.memory_data
    emergency_events,   \* self.emergency_events
    safety_violations,  \* self.safety_violations
    simulation_time,    \* self.simulation_time
    raised,             \* the exception that ended the run, or None
    log,                \* history: the lines given to parse_line so far
    origin,             \* history: for each container, the line that produced each record
    monitor,            \* monitor.py: the RealTimeMonitor object fed the same lines
    exported,           \* parse_output.py: the JSON file export_json has written
    csv_file,           \* plot_results.py: the CSV file named on the command line
    data,               \* plot_results.py: main's data, the rows load_csv returned
    csv_raised,         \* plot_results.py: the exception that ended main, or None
    plot,               \* plot_results.py: the bars plot_normalized_miss_rate drew
    analysis,           \* plot_results.py: what generate_text_report wrote, by scheduler
    csv_pc,             \* plot_results.py: the call main makes next
    disk,               \* generate_graphs.py: the files of RESULTS_DIR
    df,                 \* generate_graphs.py: main's df, what load_all_data returned
    miss_rate_plot,     \* plot_results.py: the lines plot_miss_rate_by_load drew
    response_plot,      \* plot_results.py: the lines plot_response_time_analysis drew
    results,            \* compare_schedulers.py: main's results, the rows of summary.csv
    by_workload,        \* compare_schedulers.py: what compare_by_workload printed
    by_scheduler,       \* compare_schedulers.py: what compare_by_scheduler printed
    best,               \* compare_schedulers.py: what find_best_scheduler printed
    compare_pc,         \* compare_schedulers.py: the call main makes next
    dw_plot,            \* generate_graphs.py: the bars plot_dw_impact_on_deadline_misses drew
    summary_report,     \* generate_graphs.py: what generate_summary_report wrote
    dw_pc,              \* generate_graphs.py: the call main makes next
    cycles,             \* performance_analyzer.py: the entries of one task in self.data['tasks']
    intervals,          \* performance_analyzer.py: intervals of generate_task_frequency_report
    time_diffs          \* history: what each call of _time_diff returned

parserVars == <<tasks, timing_data, scheduler_events, memory_data, emergency_events,
                safety_violations, simulation_time, raised, log, origin>>
csvVars == <<csv_file, data, csv_raised, plot, analysis, csv_pc, miss_rate_plot,
            response_plot>>
loadVars == <<disk, df>>
compareVars == <<results, by_workload, by_scheduler, best, compare_pc>>
dwVars == <<dw_plot, summary_report, dw_pc>>
timeVars == <<cycles, intervals, time_diffs>>
otherVars == <<compareVars, dwVars, timeVars>>

vars == <<parserVars, monitor, exported, csvVars, loadVars, otherVars>>

-----------------------------------------------------------------------------
(* Bounds of the model *)

\* Number of lines given to the parser in one run.
MaxLines == 3

\* Largest integer written in a line (seconds, counts, cycles, priorities).
MaxNum == 2

\* Number of rows of the CSV file given to plot_results.py.
MaxRows == 2

\* Number of result files in the directory generate_graphs.py reads.
MaxFiles == 2

-----------------------------------------------------------------------------
(* Text: tokens, character classes, substring and regular-expression search *)

None == "None"

Max(S) == CHOOSE x \in S : \A y \in S : y <= x
Min(S) == CHOOSE x \in S : \A y \in S : x <= y

\* The wall-clock time written on the k-th line, HH:MM:SS.mmm,mmm.
TimeText(k) == "00:00:0" \o ToString(k) \o ".000,000"

\* Tokens matching \d{2}:\d{2}:\d{2}\.\d{3},\d{3}
TimestampToks == {TimeText(k) : k \in 0..9}

\* Tokens matching \d+
DigitToks == {ToString(n) : n \in 0..MaxNum}

\* Tokens matching 0x[0-9a-f]+
HexToks == {"0x1a", "0x2b"}

\* Tokens holding a character outside \w.
NonWordToks == {"[", "]", "<inf>", "<dbg>", "<err>", "<wrn>", ":", ",", "->",
                "(", ")", "!", "===", "-"} \cup TimestampToks

\* int(s) for a string of decimal digits.
int(s) == CHOOSE n \in 0..MaxNum : ToString(n) = s

\* Pattern elements that match a run of one or more tokens.
RunElems == {"(\\w+(?:\\s+\\w+)*)", "(.+)"}

\* Pattern elements that are capture groups.
GroupElems == {"(\\w+)", "(\\d+)", "(0x[0-9a-f]+)", "(\\w+(?:\\s+\\w+)*)", "(.+)",
               "(\\d{2}:\\d{2}:\\d{2}\\.\\d{3},\\d{3})"}

\* Does one token match one pattern element?
TokMatch(tok, e) ==
    CASE e \in {"\\w+", "(\\w+)", "(\\w+(?:\\s+\\w+)*)"} -> tok \notin NonWordToks
      [] e = "(\\d+)" -> tok \in DigitToks
      [] e = "(0x[0-9a-f]+)" -> tok \in HexToks
      [] e = "(\\d{2}:\\d{2}:\\d{2}\\.\\d{3},\\d{3})" -> tok \in TimestampToks
      [] e = "(.+)" -> TRUE
      [] OTHER -> tok = e

\* The match of pat[j..] at line[i..]: the empty set when there is none, else
\* the set holding the sequence of captured groups (each a run of tokens) of the
\* match the regular-expression engine prefers (longest run first).
RECURSIVE MatchFrom(_, _, _, _)
MatchFrom(line, i, pat, j) ==
    IF j > Len(pat) THEN {<<>>}
    ELSE IF i > Len(line) THEN {}
    ELSE LET e == pat[j] IN
         IF e \in RunElems
         THEN LET ks == {k \in 1..(Len(line) - i + 1) :
                            /\ \A m \in i..(i + k - 1) : TokMatch(line[m], e)
                            /\ MatchFrom(line, i + k, pat, j + 1) # {}}
              IN IF ks = {} THEN {}
                 ELSE {<<SubSeq(line, i, i + Max(ks) - 1)>> \o g :
                          g \in MatchFrom(line, i + Max(ks), pat, j + 1)}
         ELSE IF ~TokMatch(line[i], e) THEN {}
         ELSE {(IF e \in GroupElems THEN <<<<line[i]>>>> ELSE <<>>) \o g :
                  g \in MatchFrom(line, i + 1, pat, j + 1)}

\* re.search(pattern, line): the match object of the leftmost match (its groups,
\* each a run of tokens); matched is FALSE where re.search returns None.
search(pat, line) ==
    LET starts == {i \in 1..Len(line) : MatchFrom(line, i, pat, 1) # {}}
    IN IF starts = {} THEN [matched |-> FALSE, groups |-> <<>>]
       ELSE [matched |-> TRUE,
             groups |-> CHOOSE g \in MatchFrom(line, Min(starts), pat, 1) : TRUE]

\* The text of a run of tokens.
RECURSIVE Text(_)
Text(toks) ==
    IF Len(toks) = 0 THEN ""
    ELSE IF Len(toks) = 1 THEN toks[1]
    ELSE toks[1] \o " " \o Text(Tail(toks))

\* match.group(n)
group(match, n) == Text(match.groups[n])

\* marker in line, for a marker given as its tokens.
Contains(line, marker) ==
    \E i \in 1..Len(line) :
        /\ i + Len(marker) - 1 <= Len(line)
        /\ SubSeq(line, i, i + Len(marker) - 1) = marker

\* self.patterns
patterns ==
    [timestamp |-> <<"[", "(\\d{2}:\\d{2}:\\d{2}\\.\\d{3},\\d{3})", "]">>,
     task_completion |-> <<"<inf>", "\\w+", ":", "(\\w+(?:\\s+\\w+)*)", "Task",
                           "completed", "(\\d+)", "(\\w+)">>,
     simulation_time |-> <<"<inf>", "mission_critical", ":", "Simulation", "Time",
                           "Elapsed", ":", "(\\d+)", "seconds">>,
     scheduler_state |-> <<"<inf>", "mission_critical", ":", "Scheduler", "State", ":",
                           "Current", "Thread", "(0x[0-9a-f]+)", ",", "Priority",
                           "(\\d+)">>,
     context_switch |-> <<"<dbg>", "timing_analysis", ":", "Context", "switch", ":",
                          "(0x[0-9a-f]+)", "->", "(0x[0-9a-f]+)", "(", "total", ":",
                          "(\\d+)", ")">>,
     emergency |-> <<"<err>", "critical_tasks", ":", "EMERGENCY", ":", "(.+)">>,
     safety_violation |-> <<"<wrn>", "critical_tasks", ":", "Safety", "Monitor", ":",
                            "Safety", "violation", "detected", "!">>,
     timing_analysis |-> <<"<inf>", "timing_analysis", ":", "===", "TIMING", "ANALYSIS",
                           "REPORT", "===">>,
     memory_analysis |-> <<"<inf>", "timing_analysis", ":", "Task", "(\\d+)", ":",
                           "monitored", "(", "thread", "ptr", ":", "(0x[0-9a-f]+)", ")">>,
     fault_detection |-> <<"<inf>", "critical_tasks", ":", "FAULT", ":", "Detection",
                           "cycle", "(\\d+)", "-", "Thread", "(0x[0-9a-f]+)">>]

-----------------------------------------------------------------------------
(* The parser object *)

\* A dict with key k set to v.
Put(d, k, v) == [x \in DOMAIN d \cup {k} |-> IF x = k THEN v ELSE d[x]]

\* A Python list held in self.tasks is written [items |-> <<...>>], so that it
\* can be told from a task record, as the interpreter tells a list from a dict.
IsList(v) == "items" \in DOMAIN v

\* ZephyrOutputParser.__init__
NewParser ==
    [tasks |-> [x \in {} |-> None],
     timing_data |-> <<>>,
     scheduler_events |-> <<>>,
     memory_data |-> <<>>,
     emergency_events |-> <<>>,
     safety_violations |-> <<>>,
     simulation_time |-> 0,
     raised |-> None]

\* _parse_task_completion adding the count to the one already stored.
_parse_task_completion_accumulates(self, line, timestamp) ==
    LET match == search(patterns.task_completion, line) IN
    IF match.matched
    THEN LET task_name == group(match, 1)
             count == int(group(match, 2))
             unit == group(match, 3)
             sofar == IF task_name \in DOMAIN self.tasks
                         /\ "count" \in DOMAIN self.tasks[task_name]
                      THEN self.tasks[task_name].count ELSE 0
         IN [self EXCEPT !.tasks = Put(self.tasks, task_name,
                                       [count |-> sofar + count, unit |-> unit,
                                        completion_time |-> timestamp])]
    ELSE self

_parse_task_completion(self, line, timestamp) ==
    LET match == search(patterns.task_completion, line) IN
    IF match.matched
    THEN LET task_name == group(match, 1)
             count == int(group(match, 2))
             unit == group(match, 3)
         IN [self EXCEPT !.tasks = Put(self.tasks, task_name,
                                       [count |-> count, unit |-> unit,
                                        completion_time |-> timestamp])]
    ELSE self

\* _parse_simulation_time keeping the clock monotonic.
_parse_simulation_time_monotonic(self, line, timestamp) ==
    LET match == search(patterns.simulation_time, line) IN
    IF match.matched
    THEN LET N == IF int(group(match, 1)) > self.simulation_time
                  THEN int(group(match, 1)) ELSE self.simulation_time
         IN [self EXCEPT !.simulation_time = N,
                         !.timing_data = Append(@, [timestamp |-> timestamp,
                                                    simulation_seconds |-> N])]
    ELSE self

_parse_simulation_time(self, line, timestamp) ==
    LET match == search(patterns.simulation_time, line) IN
    IF match.matched
    THEN LET N == int(group(match, 1))
         IN [self EXCEPT !.simulation_time = N,
                         !.timing_data = Append(@, [timestamp |-> timestamp,
                                                    simulation_seconds |-> N])]
    ELSE self

_parse_scheduler_state(self, line, timestamp) ==
    LET match == search(patterns.scheduler_state, line) IN
    IF match.matched
    THEN [self EXCEPT !.scheduler_events =
              Append(@, [timestamp |-> timestamp,
                         current_thread |-> group(match, 1),
                         priority |-> int(group(match, 2)),
                         simulation_time |-> self.simulation_time])]
    ELSE self

_parse_context_switch(self, line, timestamp) ==
    LET match == search(patterns.context_switch, line) IN
    IF match.matched
    THEN [self EXCEPT !.scheduler_events =
              Append(@, [timestamp |-> timestamp,
                         type |-> "context_switch",
                         from_thread |-> group(match, 1),
                         to_thread |-> group(match, 2),
                         total_switches |-> int(group(match, 3))])]
    ELSE self

\* _parse_emergency stamping its record with the initial clock value.
_parse_emergency_unstamped(self, line, timestamp) ==
    LET match == search(patterns.emergency, line) IN
    IF match.matched
    THEN [self EXCEPT !.emergency_events =
              Append(@, [timestamp |-> timestamp,
                         message |-> group(match, 1),
                         simulation_time |-> 0])]
    ELSE self

_parse_emergency(self, line, timestamp) ==
    LET match == search(patterns.emergency, line) IN
    IF match.matched
    THEN [self EXCEPT !.emergency_events =
              Append(@, [timestamp |-> timestamp,
                         message |-> group(match, 1),
                         simulation_time |-> self.simulation_time])]
    ELSE self

\* _parse_safety_violation rewinding the clock by a second.
_parse_safety_violation_rewinds(self, line, timestamp) ==
    [self EXCEPT !.simulation_time = IF @ > 0 THEN @ - 1 ELSE 0,
                 !.safety_violations =
                     Append(@, [timestamp |-> timestamp,
                                simulation_time |-> self.simulation_time])]

_parse_safety_violation(self, line, timestamp) ==
    [self EXCEPT !.safety_violations =
        Append(@, [timestamp |-> timestamp,
                   simulation_time |-> self.simulation_time])]

\* _parse_timing_report_start restarting the clock at each report.
_parse_timing_report_start_restarts(self, line, timestamp) ==
    [self EXCEPT !.simulation_time = 0,
                 !.timing_data =
                     Append(@, [timestamp |-> timestamp,
                                event |-> "timing_report",
                                simulation_time |-> self.simulation_time])]

_parse_timing_report_start(self, line, timestamp) ==
    [self EXCEPT !.timing_data =
        Append(@, [timestamp |-> timestamp,
                   event |-> "timing_report",
                   simulation_time |-> self.simulation_time])]

_parse_memory_data(self, line, timestamp) ==
    LET match == search(patterns.memory_analysis, line) IN
    IF match.matched
    THEN [self EXCEPT !.memory_data =
              Append(@, [timestamp |-> timestamp,
                         task_id |-> int(group(match, 1)),
                         thread_ptr |-> group(match, 2),
                         simulation_time |-> self.simulation_time])]
    ELSE self

\* The append is a method of lists only: when a task named 'fault_cycles' has
\* put a record under the key, self.tasks['fault_cycles'].append raises.
_parse_fault_detection(self, line, timestamp) ==
    LET match == search(patterns.fault_detection, line) IN
    IF match.matched
    THEN LET cycle == int(group(match, 1))
             thread_id == group(match, 2)
             present == IF "fault_cycles" \notin DOMAIN self.tasks
                        THEN Put(self.tasks, "fault_cycles", [items |-> <<>>])
                        ELSE self.tasks
         IN IF ~IsList(present["fault_cycles"])
            THEN [self EXCEPT !.raised = "AttributeError"]
            ELSE [self EXCEPT !.tasks =
                     Put(present, "fault_cycles",
                         [items |-> Append(present["fault_cycles"].items,
                                           [timestamp |-> timestamp,
                                            cycle |-> cycle,
                                            thread_id |-> thread_id,
                                            simulation_time |-> self.simulation_time])])]
    ELSE self

\* get_summary with the timing reports counted as every timing_data entry.
get_summary_counts_markers(self) ==
    [simulation_duration |-> self.simulation_time,
     total_tasks |-> Cardinality(DOMAIN self.tasks),
     task_performance |-> self.tasks,
     scheduler_events_count |-> Len(self.scheduler_events),
     emergency_events_count |-> Len(self.emergency_events),
     safety_violations_count |-> Len(self.safety_violations),
     timing_reports_count |-> Len(self.timing_data),
     memory_entries_count |-> Len(self.memory_data)]

\* ZephyrOutputParser.get_summary
get_summary(self) ==
    [simulation_duration |-> self.simulation_time,
     total_tasks |-> Cardinality(DOMAIN self.tasks),
     task_performance |-> self.tasks,
     scheduler_events_count |-> Len(self.scheduler_events),
     emergency_events_count |-> Len(self.emergency_events),
     safety_violations_count |-> Len(self.safety_violations),
     timing_reports_count |-> Len(SelectSeq(self.timing_data,
                                            LAMBDA t : "event" \in DOMAIN t)),
     memory_entries_count |-> Len(self.memory_data)]

\* The substring each branch of parse_line looks for, in the order of the branches.
TaskCompleted == <<"Task", "completed">>
SimulationTimeElapsed == <<"Simulation", "Time", "Elapsed">>
SchedulerState == <<"Scheduler", "State">>
ContextSwitch == <<"Context", "switch">>
EMERGENCY == <<"EMERGENCY", ":">>
SafetyViolationDetected == <<"Safety", "violation", "detected">>
TimingAnalysisReport == <<"TIMING", "ANALYSIS", "REPORT">>

\* The if/elif chain of parse_line: the handler of the first branch whose test
\* holds, and nothing when none does.
dispatch(self, line, timestamp) ==
    IF Contains(line, TaskCompleted)
         THEN _parse_task_completion(self, line, timestamp)
    ELSE IF Contains(line, SimulationTimeElapsed)
         THEN _parse_simulation_time(self, line, timestamp)
    ELSE IF Contains(line, SchedulerState)
         THEN _parse_scheduler_state(self, line, timestamp)
    ELSE IF Contains(line, ContextSwitch)
         THEN _parse_context_switch(self, line, timestamp)
    ELSE IF Contains(line, EMERGENCY)
         THEN _parse_emergency(self, line, timestamp)
    ELSE IF Contains(line, SafetyViolationDetected)
         THEN _parse_safety_violation(self, line, timestamp)
    ELSE IF Contains(line, TimingAnalysisReport)
         THEN _parse_timing_report_start(self, line, timestamp)
    ELSE IF search(patterns.memory_analysis, line).matched
         THEN _parse_memory_data(self, line, timestamp)
    ELSE IF search(patterns.fault_detection, line).matched
         THEN _parse_fault_detection(self, line, timestamp)
    ELSE self

\* The time stamp parse_line hands to the handlers: group 1 of the first time
\* stamp in the line, None when the line has none.
Timestamp(line) ==
    LET timestamp_match == search(patterns.timestamp, line)
    IN IF timestamp_match.matched THEN group(timestamp_match, 1) ELSE None

\* parse_line with the safety-violation test written as an if of its own rather
\* than as an elif of the chain.
parse_line_safety_if(self, line) ==
    IF Contains(line, SafetyViolationDetected) /\ Contains(line, EMERGENCY)
    THEN _parse_safety_violation(dispatch(self, line, Timestamp(line)), line,
                                 Timestamp(line))
    ELSE dispatch(self, line, Timestamp(line))

\* parse_line with a final else that files the line as an emergency.
parse_line_catch_all(self, line) ==
    IF /\ ~Contains(line, TaskCompleted) /\ ~Contains(line, SimulationTimeElapsed)
       /\ ~Contains(line, SchedulerState) /\ ~Contains(line, ContextSwitch)
       /\ ~Contains(line, EMERGENCY) /\ ~Contains(line, SafetyViolationDetected)
       /\ ~Contains(line, TimingAnalysisReport)
       /\ ~search(patterns.memory_analysis, line).matched
       /\ ~search(patterns.fault_detection, line).matched
    THEN [self EXCEPT !.emergency_events =
              Append(@, [timestamp |-> Timestamp(line),
                         message |-> Text(line),
                         simulation_time |-> self.simulation_time])]
    ELSE dispatch(self, line, Timestamp(line))

\* parse_line giving up on a line in which it finds no time stamp.
parse_line_needs_timestamp(self, line) ==
    IF Timestamp(line) = None THEN self
    ELSE dispatch(self, line, Timestamp(line))

\* ZephyrOutputParser.parse_line
parse_line(self, line) == dispatch(self, line, Timestamp(line))

-----------------------------------------------------------------------------
(* The input: log lines as the harness writes them, and lines near them *)

\* A line to come: what it was written from (kind and the literals a, b, n put
\* into it), its text after the time stamp, and whether it carries a time stamp.
Line(kind, a, b, n, stamped, body) ==
    [kind |-> kind, a |-> a, b |-> b, n |-> n, stamped |-> stamped, body |-> body]

TaskNames == {"Navigation", "fault_cycles"}
Unit(count) == IF count % 2 = 1 THEN "cycles" ELSE "updates"

MarkerLines ==
    {Line("marker", "", "", n, TRUE,
          <<"<inf>", "mission_critical", ":", "Simulation", "Time", "Elapsed", ":",
            ToString(n), "seconds">>) : n \in 1..MaxNum}

TaskLines ==
    {Line("task", name, Unit(count), count, TRUE,
          <<"<inf>", "mod", ":", name, "Task", "completed", ToString(count),
            Unit(count)>>) : name \in TaskNames, count \in 1..MaxNum}

FaultLines ==
    {Line("fault", "0x2b", "", n, TRUE,
          <<"<inf>", "critical_tasks", ":", "FAULT", ":", "Detection", "cycle",
            ToString(n), "-", "Thread", "0x2b">>) : n \in 1..MaxNum}

EmergencyLines ==
    {Line("emergency", Text(msg), "", 0, TRUE,
          <<"<err>", "critical_tasks", ":", "EMERGENCY", ":">> \o msg) :
        msg \in {<<"thruster", "fault">>,
                 <<"Safety", "violation", "detected">>,
                 <<"Scheduler", "State", "lost">>}}

OtherLines ==
    {Line("scheduler_state", "0x1a", "", 1, TRUE,
          <<"<inf>", "mission_critical", ":", "Scheduler", "State", ":", "Current",
            "Thread", "0x1a", ",", "Priority", "1">>),
     Line("context_switch", "0x1a", "0x2b", 2, TRUE,
          <<"<dbg>", "timing_analysis", ":", "Context", "switch", ":", "0x1a", "->",
            "0x2b", "(", "total", ":", "2", ")">>),
     Line("safety_violation", "", "", 0, TRUE,
          <<"<wrn>", "critical_tasks", ":", "Safety", "Monitor", ":", "Safety",
            "violation", "detected", "!">>),
     Line("timing_report", "", "", 0, TRUE,
          <<"<inf>", "timing_analysis", ":", "===", "TIMING", "ANALYSIS", "REPORT",
            "===">>),
     Line("memory", "0x1a", "", 1, TRUE,
          <<"<inf>", "timing_analysis", ":", "Task", "1", ":", "monitored", "(",
            "thread", "ptr", ":", "0x1a", ")">>),
     Line("chatter", "", "", 0, TRUE, <<"<inf>", "main", ":", "Booting">>)}

\* Lines that hold a branch's substring and do not match its regular expression.
NearLines ==
    {Line("near_marker", "", "", 1, TRUE,
          <<"<inf>", "nav", ":", "Simulation", "Time", "Elapsed", ":", "1", "seconds">>),
     Line("near_task", "", "cycles", 1, FALSE,
          <<"Task", "completed", "1", "cycles">>),
     Line("near_emergency", "", "", 0, TRUE,
          <<"<err>", "critical_tasks", ":", "EMERGENCY", ":">>),
     Line("near_safety", "", "", 0, FALSE,
          <<"Safety", "violation", "detected">>),
     Line("near_report", "", "", 0, TRUE,
          <<"<inf>", "nav", ":", "TIMING", "ANALYSIS", "REPORT">>)}

Lines == MarkerLines \cup TaskLines \cup FaultLines \cup EmergencyLines
           \cup OtherLines \cup NearLines

\* The k-th line of the log: the harness stamps it with the time of writing.
Written(l, k) ==
    [kind |-> l.kind, a |-> l.a, b |-> l.b, n |-> l.n,
     text |-> IF l.stamped THEN <<"[", TimeText(k), "]">> \o l.body ELSE l.body]

-----------------------------------------------------------------------------
(* monitor.py: the streaming monitor *)

\* RealTimeMonitor.__init__; raised is the exception that ended run, or None.
NewMonitor ==
    [task_counts |-> [x \in {} |-> 0],
     last_simulation_time |-> 0,
     context_switches |-> 0,
     emergency_count |-> 0,
     safety_violations |-> 0,
     raised |-> None]

\* The task branches of process_line in their order: the substring tested, the
\* key of task_counts and the regular expression searched for.
task_branches ==
    <<[name |-> <<"Mission", "Control">>, key |-> "Mission Control",
       pattern |-> <<"completed", "(\\d+)", "cycles">>],
      [name |-> <<"Navigation">>, key |-> "Navigation",
       pattern |-> <<"completed", "(\\d+)", "updates">>],
      [name |-> <<"Communication">>, key |-> "Communication",
       pattern |-> <<"sent", "(\\d+)", "messages">>],
      [name |-> <<"Safety", "Monitor">>, key |-> "Safety Monitor",
       pattern |-> <<"completed", "(\\d+)", "cycles">>],
      [name |-> <<"Fault", "Detection">>, key |-> "Fault Detection",
       pattern |-> <<"completed", "(\\d+)", "cycles">>],
      [name |-> <<"Housekeeping">>, key |-> "Housekeeping",
       pattern |-> <<"completed", "(\\d+)", "cycles">>],
      [name |-> <<"Emergency", "Response">>, key |-> "Emergency Response",
       pattern |-> <<"handled", "(\\d+)", "emergencies">>]>>

\* The 'Task completed' branch of process_line.
process_task_line(self, line) ==
    LET named == {i \in 1..Len(task_branches) : Contains(line, task_branches[i].name)}
    IN IF named = {} THEN self
       ELSE LET branch == task_branches[Min(named)]
                match == search(branch.pattern, line)
            IN IF match.matched
               THEN [self EXCEPT !.task_counts = Put(@, branch.key, int(group(match, 1)))]
               ELSE self

\* line.split('EMERGENCY: ')[1] exists: the separator, with the blank that ends
\* it, occurs in the line, which is the case when text follows the colon.
HasEmergencyText(line) ==
    \E i \in 1..Len(line) :
        /\ i + Len(EMERGENCY) <= Len(line)
        /\ SubSeq(line, i, i + Len(EMERGENCY) - 1) = EMERGENCY

\* RealTimeMonitor.process_line.  print_status and the prints write to the
\* terminal and change nothing of the object.
process_line(self, line) ==
    IF Contains(line, SimulationTimeElapsed)
    THEN LET match == search(<<"Simulation", "Time", "Elapsed", ":", "(\\d+)",
                               "seconds">>, line)
         IN IF match.matched
            THEN [self EXCEPT !.last_simulation_time = int(group(match, 1))]
            ELSE self
    ELSE IF Contains(line, TaskCompleted)
    THEN process_task_line(self, line)
    ELSE IF Contains(line, ContextSwitch)
    THEN LET match == search(<<"total", ":", "(\\d+)">>, line)
         IN IF match.matched
            THEN [self EXCEPT !.context_switches = int(group(match, 1))]
            ELSE self
    ELSE IF Contains(line, EMERGENCY)
    THEN IF HasEmergencyText(line)
         THEN [self EXCEPT !.emergency_count = @ + 1]
         ELSE [self EXCEPT !.emergency_count = @ + 1, !.raised = "IndexError"]
    ELSE IF Contains(line, SafetyViolationDetected)
    THEN [self EXCEPT !.safety_violations = @ + 1]
    ELSE self

-----------------------------------------------------------------------------
(* parse_output.py and example_analysis.py: the JSON file *)

\* The fields of the parser's records that hold a Python int; the others hold a
\* str or None.
IntFields == {"count", "simulation_seconds", "simulation_time", "priority",
              "total_switches", "task_id", "cycle", "simulation_duration",
              "total_tasks", "scheduler_events_count", "emergency_events_count",
              "safety_violations_count", "timing_reports_count",
              "memory_entries_count"}

\* json.dump of the value of a field: an int is written as a number, None as
\* null, a str as a string.  A JSON value is written [t |-> its kind, v |-> ...].
dump_scalar(field, x) ==
    IF field \in IntFields THEN [t |-> "number", v |-> x]
    ELSE IF x = None THEN [t |-> "null", v |-> None]
    ELSE [t |-> "string", v |-> x]

\* json.dump of a dict of scalars: an object.
dump_dict(d) == [t |-> "object", v |-> [k \in DOMAIN d |-> dump_scalar(k, d[k])]]

\* json.dump of a list of dicts: an array.
dump_list(l) == [t |-> "array", v |-> [i \in 1..Len(l) |-> dump_dict(l[i])]]

\* json.dump of self.tasks: an object whose members are objects, or arrays for
\* the names that hold a list.
dump_tasks(t) ==
    [t |-> "object",
     v |-> [name \in DOMAIN t |-> IF IsList(t[name]) THEN dump_list(t[name].items)
                                  ELSE dump_dict(t[name])]]

\* json.dump of the summary: its counts, and the tasks under task_performance.
dump_summary(s) ==
    [t |-> "object",
     v |-> [k \in DOMAIN s |-> IF k = "task_performance" THEN dump_tasks(s[k])
                               ELSE dump_scalar(k, s[k])]]

\* json.dump(data, f, indent=2): the document written to the file.
json_dump(d) ==
    [t |-> "object",
     v |-> [k \in DOMAIN d |-> IF k = "summary" THEN dump_summary(d[k])
                               ELSE IF k = "tasks" THEN dump_tasks(d[k])
                               ELSE dump_list(d[k])]]

\* json.load(f): null gives None, a number an int, a string a str, an array a
\* list (written [items |-> <<...>>]) and an object a dict.
RECURSIVE json_load(_)
json_load(j) ==
    CASE j.t = "null" -> None
      [] j.t \in {"number", "string"} -> j.v
      [] j.t = "array" -> [items |-> [i \in DOMAIN j.v |-> json_load(j.v[i])]]
      [] j.t = "object" -> [k \in DOMAIN j.v |-> json_load(j.v[k])]

\* export_json leaving the memory entries out of the file.
export_json_without_memory(self) ==
    json_dump([summary |-> get_summary(self),
               tasks |-> self.tasks,
               timing_data |-> self.timing_data,
               scheduler_events |-> self.scheduler_events,
               emergency_events |-> self.emergency_events,
               safety_violations |-> self.safety_violations])

\* ZephyrOutputParser.export_json: the document it writes.
export_json(self) ==
    json_dump([summary |-> get_summary(self),
               tasks |-> self.tasks,
               timing_data |-> self.timing_data,
               scheduler_events |-> self.scheduler_events,
               memory_data |-> self.memory_data,
               emergency_events |-> self.emergency_events,
               safety_violations |-> self.safety_violations])

\* data.get(key, default)
get(d, key, default) == IF key \in DOMAIN d THEN d[key] ELSE default

\* analyze_json_output: the file loaded, and the lists and the summary it reads
\* from it with their defaults.
analyze_json_output(doc) ==
    LET loaded == json_load(doc)
        empty == [items |-> <<>>]
    IN [summary |-> get(loaded, "summary", [x \in {} |-> None]),
        scheduler_events |-> get(loaded, "scheduler_events", empty).items,
        emergency_events |-> get(loaded, "emergency_events", empty).items,
        safety_violations |-> get(loaded, "safety_violations", empty).items,
        timing_data |-> get(loaded, "timing_data", empty).items]

\* No file written yet.
NoFile == [written |-> FALSE, doc |-> [t |-> "null", v |-> None]]

-----------------------------------------------------------------------------
(* plot_results.py: the CSV of test results, the bar chart and the report *)

\* The text of a cell is the sequence of its characters.
DigitChars == {"0", "1", "2", "3", "4", "5", "6", "7", "8", "9"}
DigitValue(c) == CHOOSE d \in 0..9 : ToString(d) = c
IsDigits(s) == Len(s) > 0 /\ \A i \in 1..Len(s) : s[i] \in DigitChars

\* The number a string of decimal digits denotes.
RECURSIVE Decimal(_)
Decimal(s) ==
    IF Len(s) = 0 THEN 0
    ELSE 10 * Decimal(SubSeq(s, 1, Len(s) - 1)) + DigitValue(s[Len(s)])

\* int(text) for the text of a cell: its value, or the ValueError raised for a
\* text that is not a string of digits.
int_text(text) ==
    IF IsDigits(text) THEN [raised |-> None, value |-> Decimal(text)]
    ELSE [raised |-> "ValueError", value |-> 0]

\* float(text) for the text of a cell: digits, with or without a point and
\* digits after it.  A float is held in tenths, which is exact for the texts
\* with one digit after the point that the files hold.
float_text(text) ==
    LET points == {i \in 1..Len(text) : text[i] = "."}
        whole == SubSeq(text, 1, Min(points) - 1)
        frac == SubSeq(text, Min(points) + 1, Len(text))
    IN IF points = {}
       THEN IF IsDigits(text) THEN [raised |-> None, value |-> 10 * Decimal(text)]
            ELSE [raised |-> "ValueError", value |-> 0]
       ELSE IF /\ Len(whole) + Len(frac) > 0
               /\ \A i \in 1..Len(whole) : whole[i] \in DigitChars
               /\ \A i \in 1..Len(frac) : frac[i] \in DigitChars
            THEN [raised |-> None,
                  value |-> 10 * Decimal(whole)
                              + (IF Len(frac) = 0 THEN 0 ELSE DigitValue(frac[1]))]
            ELSE [raised |-> "ValueError", value |-> 0]

\* The conversions of load_csv in their order: the column, the conversion, and
\* whether the column is read with row[...] or with row.get(..., 0).
conversions ==
    <<[column |-> "Threads", to |-> "int", required |-> TRUE],
      [column |-> "Activations", to |-> "int", required |-> TRUE],
      [column |-> "Misses", to |-> "int", required |-> TRUE],
      [column |-> "MissRate", to |-> "float", required |-> TRUE],
      [column |-> "AvgResponseTime", to |-> "int", required |-> FALSE],
      [column |-> "MaxResponseTime", to |-> "int", required |-> FALSE],
      [column |-> "Jitter", to |-> "int", required |-> FALSE],
      [column |-> "ContextSwitches", to |-> "int", required |-> FALSE],
      [column |-> "Preemptions", to |-> "int", required |-> FALSE],
      [column |-> "CSPerActivation", to |-> "float", required |-> FALSE],
      [column |-> "OverheadPercent", to |-> "float", required |-> FALSE],
      [column |-> "Utilization", to |-> "float", required |-> FALSE],
      [column |-> "NormalizedMissRate", to |-> "float", required |-> FALSE]>>

RequiredColumns == {c.column : c \in {conversions[i] : i \in 1..4}}
OptionalColumns == {c.column : c \in {conversions[i] : i \in 5..Len(conversions)}}

\* One conversion applied to a row of the reader: int(row[c]), float(row[c]),
\* int(row.get(c, 0)) or float(row.get(c, 0)).
convert(row, c) ==
    IF c.column \in DOMAIN row
    THEN IF c.to = "int" THEN int_text(row[c.column]) ELSE float_text(row[c.column])
    ELSE IF c.required THEN [raised |-> "KeyError", value |-> 0]
    ELSE [raised |-> None, value |-> 0]

\* The body of the loop of load_csv for one row: the row with its numbers, or
\* the exception of the first conversion that raises.
load_row(row) ==
    LET converted == [i \in 1..Len(conversions) |-> convert(row, conversions[i])]
        failed == {i \in 1..Len(conversions) : converted[i].raised # None}
        index == [name \in RequiredColumns \cup OptionalColumns |->
                     CHOOSE i \in 1..Len(conversions) : conversions[i].column = name]
    IN IF failed # {}
       THEN [raised |-> converted[Min(failed)].raised, row |-> [x \in {} |-> 0]]
       ELSE [raised |-> None,
             row |-> [name \in DOMAIN row \cup OptionalColumns |->
                         IF name \in DOMAIN index THEN converted[index[name]].value
                         ELSE row[name]]]

\* load_csv: the rows with their numbers; the exception of the first row that
\* raises leaves load_csv and nothing is returned.
load_csv(file) ==
    LET loaded == [i \in 1..Len(file) |-> load_row(file[i])]
        failed == {i \in 1..Len(file) : loaded[i].raised # None}
    IN IF failed # {}
       THEN [raised |-> loaded[Min(failed)].raised, data |-> <<>>]
       ELSE [raised |-> None, data |-> [i \in 1..Len(file) |-> loaded[i].row]]

\* The scheduler names of the files, in the order sorted() puts them.
SchedulerNames == <<"EDF", "RMS">>

\* get_unique_values(data, 'Scheduler')
get_unique_values(rows) ==
    SelectSeq(SchedulerNames, LAMBDA s : \E i \in 1..Len(rows) : rows[i]["Scheduler"] = s)

\* sum(r[key] for r in rows)
RECURSIVE sum(_, _)
sum(rows, key) ==
    IF Len(rows) = 0 THEN 0 ELSE rows[1][key] + sum(Tail(rows), key)

\* sum(r[key] for r in rows) / len(rows), kept as the sum and the number of rows.
mean(rows, key) == [sum |-> sum(rows, key), n |-> Len(rows)]

\* a < bound, for a mean of floats (held in tenths) and a whole number bound.
Below(a, bound) == a.sum < 10 * bound * a.n

\* a < bound, for a mean of floats and a bound given in tenths.
BelowTenths(a, bound) == a.sum < bound * a.n

\* The rows of one scheduler.
sched_data(rows, sched) == SelectSeq(rows, LAMBDA r : r["Scheduler"] = sched)

\* The colour chain of plot_normalized_miss_rate with its bands closed above.
bar_colour_inclusive(val) ==
    IF val.sum <= 10 * 10 * val.n THEN "darkgreen"
    ELSE IF val.sum <= 10 * 25 * val.n THEN "green"
    ELSE IF val.sum <= 10 * 50 * val.n THEN "orange"
    ELSE "red"

\* The colour plot_normalized_miss_rate gives a bar.
bar_colour(val) ==
    IF Below(val, 10) THEN "darkgreen"
    ELSE IF Below(val, 25) THEN "green"
    ELSE IF Below(val, 50) THEN "orange"
    ELSE "red"

\* plot_normalized_miss_rate: the schedulers in the order of their bars (by
\* average, equal averages in the order of the names), the averages and the
\* colours.
plot_normalized_miss_rate(rows) ==
    LET schedulers == get_unique_values(rows)
        avg == [k \in 1..Len(schedulers) |->
                   mean(sched_data(rows, schedulers[k]), "NormalizedMissRate")]
        before(j, k) == \/ avg[j].sum * avg[k].n < avg[k].sum * avg[j].n
                        \/ /\ avg[j].sum * avg[k].n = avg[k].sum * avg[j].n
                           /\ j < k
        place == [k \in 1..Len(schedulers) |->
                     1 + Cardinality({j \in 1..Len(schedulers) : before(j, k)})]
        at == [p \in 1..Len(schedulers) |->
                  CHOOSE k \in 1..Len(schedulers) : place[k] = p]
    IN [sorted_scheds |-> [p \in 1..Len(schedulers) |-> schedulers[at[p]]],
        sorted_norms |-> [p \in 1..Len(schedulers) |-> avg[at[p]]],
        colors |-> [p \in 1..Len(schedulers) |-> bar_colour(avg[at[p]])]]

\* The efficiency line of generate_text_report.
efficiency(avg_normalized) ==
    IF Below(avg_normalized, 10) THEN "EXCELLENT - Very efficient"
    ELSE IF Below(avg_normalized, 25) THEN "GOOD - Reasonably efficient"
    ELSE IF Below(avg_normalized, 50) THEN "ACCEPTABLE - Moderate efficiency"
    ELSE "POOR - Low efficiency"

\* The rating line of generate_text_report.
rating(avg_miss) ==
    IF BelowTenths(avg_miss, 10) THEN "EXCELLENT"
    ELSE IF BelowTenths(avg_miss, 50) THEN "GOOD"
    ELSE IF BelowTenths(avg_miss, 150) THEN "ACCEPTABLE"
    ELSE IF BelowTenths(avg_miss, 300) THEN "POOR"
    ELSE "INADEQUATE"

\* generate_text_report: for each scheduler, the figures written to analysis.txt.
generate_text_report(rows) ==
    LET schedulers == get_unique_values(rows)
        rows_of(sched) == sched_data(rows, sched)
        column(sched, key) == {rows_of(sched)[i][key] : i \in 1..Len(rows_of(sched))}
    IN [sched \in {schedulers[k] : k \in 1..Len(schedulers)} |->
          [avg_miss |-> mean(rows_of(sched), "MissRate"),
           max_miss |-> Max(column(sched, "MissRate")),
           min_miss |-> Min(column(sched, "MissRate")),
           zero_miss |-> Len(SelectSeq(rows_of(sched), LAMBDA r : r["Misses"] = 0)),
           scenarios |-> Len(rows_of(sched)),
           avg_util |-> mean(rows_of(sched), "Utilization"),
           avg_normalized |-> mean(rows_of(sched), "NormalizedMissRate"),
           efficiency |-> efficiency(mean(rows_of(sched), "NormalizedMissRate")),
           avg_response |-> mean(rows_of(sched), "AvgResponseTime"),
           max_response |-> Max(column(sched, "MaxResponseTime")),
           avg_jitter |-> mean(rows_of(sched), "Jitter"),
           max_jitter |-> Max(column(sched, "Jitter")),
           avg_overhead |-> mean(rows_of(sched), "OverheadPercent"),
           avg_cs |-> mean(rows_of(sched), "CSPerActivation"),
           total_cs |-> sum(rows_of(sched), "ContextSwitches"),
           rating |-> rating(mean(rows_of(sched), "MissRate"))]]

\* loads of plot_miss_rate_by_load and plot_response_time_analysis
loads == <<"Light", "Moderate", "Heavy", "Overload">>

\* sorted(list(set(...))) for a set of numbers.
RECURSIVE sorted(_)
sorted(S) == IF S = {} THEN <<>> ELSE <<Min(S)>> \o sorted(S \ {Min(S)})

\* get_unique_values(data, 'Threads')
thread_counts(rows) == sorted({rows[i]["Threads"] : i \in 1..Len(rows)})

\* A point of a line or the height of a bar: a number, kept as a sum over n.
\* none says whether the value is None; the plots compute numbers only.
value(total, n) == [none |-> FALSE, sum |-> total, n |-> n]

\* The rows of a scheduler at a load.
rows_at(rows, sched, load) ==
    SelectSeq(rows, LAMBDA r : r["Scheduler"] = sched /\ r["Load"] = load)

\* plot_miss_rate_by_load: for each thread count, the line of each scheduler,
\* a miss rate (in tenths) for each load.
plot_miss_rate_by_load(rows) ==
    LET schedulers == get_unique_values(rows)
        counts == thread_counts(rows)
        matching(sched, load, threads) ==
            SelectSeq(rows, LAMBDA r : /\ r["Scheduler"] = sched
                                       /\ r["Load"] = load
                                       /\ r["Threads"] = threads)
    IN [idx \in 1..Len(counts) |->
          [threads |-> counts[idx],
           miss_rates |->
               [sched \in {schedulers[k] : k \in 1..Len(schedulers)} |->
                   [l \in 1..Len(loads) |->
                       IF Len(matching(sched, loads[l], counts[idx])) > 0
                       THEN value(matching(sched, loads[l], counts[idx])[1]["MissRate"], 1)
                       ELSE value(0, 1)]]]]

\* plot_response_time_analysis: for each scheduler the average and the maximum
\* response time and the average jitter at each load, and the overall average
\* response time.
plot_response_time_analysis(rows) ==
    LET schedulers == get_unique_values(rows)
        names == {schedulers[k] : k \in 1..Len(schedulers)}
        by_load(sched, key, fold(_, _)) ==
            [l \in 1..Len(loads) |->
                IF Len(rows_at(rows, sched, loads[l])) > 0
                THEN fold(rows_at(rows, sched, loads[l]), key)
                ELSE value(0, 1)]
        average(g, key) == value(sum(g, key), Len(g))
        maximum(g, key) == value(Max({g[i][key] : i \in 1..Len(g)}), 1)
    IN [avg_rt_by_load |-> [sched \in names |-> by_load(sched, "AvgResponseTime", average)],
        max_rt_by_load |-> [sched \in names |-> by_load(sched, "MaxResponseTime", maximum)],
        jitter_by_load |-> [sched \in names |-> by_load(sched, "Jitter", average)],
        avg_rt_all |-> [sched \in names |->
                           value(sum(sched_data(rows, sched), "AvgResponseTime"),
                                 Len(sched_data(rows, sched)))]]

\* The cells of the files: the texts of whole numbers and of numbers with one
\* digit after the point, and a text that is no number.
Cell(whole, tenth) == whole \o <<".", tenth>>

\* A row of results as the benchmark writes it, every column filled.
FullRow(sched, load, misses, miss_rate, utilization, normalized, response) ==
    [Scheduler |-> sched,
     Load |-> load,
     Threads |-> <<"4">>,
     Activations |-> <<"1", "0">>,
     Misses |-> misses,
     MissRate |-> miss_rate,
     AvgResponseTime |-> response,
     MaxResponseTime |-> <<"7">>,
     Jitter |-> <<"1">>,
     ContextSwitches |-> <<"2", "5">>,
     Preemptions |-> <<"3">>,
     CSPerActivation |-> Cell(<<"2">>, "5"),
     OverheadPercent |-> Cell(<<"1">>, "2"),
     Utilization |-> utilization,
     NormalizedMissRate |-> normalized]

FullRows ==
    {FullRow("EDF", "Light", <<"2">>, Cell(<<"2", "0">>, "0"), Cell(<<"0">>, "5"),
             Cell(<<"4", "0">>, "0"), <<"3">>),
     FullRow("EDF", "Light", <<"2">>, Cell(<<"2", "0">>, "0"), Cell(<<"1">>, "0"),
             Cell(<<"2", "0">>, "0"), <<"3">>),
     FullRow("RMS", "Light", <<"1">>, Cell(<<"5">>, "0"), Cell(<<"0">>, "5"),
             Cell(<<"1", "0">>, "0"), <<"3">>),
     FullRow("RMS", "Heavy", <<"2">>, Cell(<<"2", "5">>, "0"), Cell(<<"1">>, "0"),
             Cell(<<"2", "5">>, "0"), <<"3">>),
     FullRow("EDF", "Heavy", <<"5">>, Cell(<<"5", "0">>, "0"), Cell(<<"1">>, "0"),
             Cell(<<"5", "0">>, "0"), <<"3">>),
     FullRow("RMS", "Moderate", <<"1">>, Cell(<<"9">>, "9"), Cell(<<"1">>, "0"),
             Cell(<<"9">>, "9"), <<"3">>),
     FullRow("RMS", "Overload", <<"1">>, Cell(<<"1", "0">>, "1"), Cell(<<"1">>, "0"),
             Cell(<<"1", "0">>, "1"), <<"3">>),
     FullRow("EDF", "Light", <<"4">>, Cell(<<"4", "9">>, "9"), Cell(<<"1">>, "0"),
             Cell(<<"4", "9">>, "9"), <<"3">>),
     FullRow("RMS", "Medium", <<"0">>, Cell(<<"0">>, "0"), Cell(<<"0">>, "0"),
             Cell(<<"0">>, "0"), <<"3">>),
     FullRow("EDF", "Heavy", <<"2">>, Cell(<<"2", "0">>, "0"), Cell(<<"0">>, "5"),
             Cell(<<"4", "0">>, "0"), Cell(<<"1", "2">>, "5")),
     FullRow("RMS", "Light", <<"2">>, <<"n", "/", "a">>, Cell(<<"1">>, "0"),
             Cell(<<"2", "0">>, "0"), <<"3">>)}

\* The optional columns a file has: none, the utilization, the utilization and
\* the normalized miss rate, or all of them.
Headers == {{}, {"Utilization"}, {"Utilization", "NormalizedMissRate"}, OptionalColumns}

\* The rows csv.DictReader gives for a file with these optional columns.
CsvFiles ==
    {[i \in 1..n |-> [c \in {"Scheduler", "Load"} \cup RequiredColumns \cup header |->
                      rows[i][c]]] :
        <<n, header, rows>> \in
            UNION {{<<m, h, r>> : h \in Headers, r \in [1..m -> FullRows]} : m \in 0..MaxRows}}

\* Nothing drawn, nothing written.
NoPlot == [sorted_scheds |-> <<>>, sorted_norms |-> <<>>, colors |-> <<>>]
NoAnalysis == [x \in {} |-> 0]

-----------------------------------------------------------------------------
(* generate_graphs.py: the result files of the runs *)

SCHEDULERS == <<"EDF", "WEIGHTED_EDF", "WSRT", "RMS">>
WORKLOADS == <<"LIGHT", "MEDIUM", "HEAVY", "OVERLOAD">>
DW_OPTIONS == <<"OFF", "ON">>

\* The (scheduler, workload, dw) of the files in the order the loops of
\* load_all_data visit them.
FileOrder ==
    [k \in 1..(Len(SCHEDULERS) * Len(WORKLOADS) * Len(DW_OPTIONS)) |->
        <<SCHEDULERS[((k - 1) \div (Len(WORKLOADS) * Len(DW_OPTIONS))) + 1],
          WORKLOADS[(((k - 1) \div Len(DW_OPTIONS)) % Len(WORKLOADS)) + 1],
          DW_OPTIONS[((k - 1) % Len(DW_OPTIONS)) + 1]>>]

\* load_csv_data: None for a file that is not there or that pandas cannot read,
\* else its rows with the response time in milliseconds (microseconds / 1000.0,
\* kept as the fraction) and the three columns that say where the row is from.
load_csv_data(files, scheduler, workload, dw) ==
    LET name == <<scheduler, workload, dw>>
    IN IF name \notin DOMAIN files THEN [none |-> TRUE, rows |-> <<>>]
       ELSE IF ~files[name].readable THEN [none |-> TRUE, rows |-> <<>>]
       ELSE [none |-> FALSE,
             rows |-> [i \in 1..Len(files[name].rows) |->
                         [c \in DOMAIN files[name].rows[i]
                                  \cup {"scheduler", "workload", "dynamic_weighting"} |->
                             CASE c = "response_time" ->
                                      [num |-> files[name].rows[i][c], den |-> 1000]
                               [] c = "scheduler" -> scheduler
                               [] c = "workload" -> workload
                               [] c = "dynamic_weighting" -> dw
                               [] OTHER -> files[name].rows[i][c]]]]

\* all_data after the first k turns of the loops of load_all_data.
RECURSIVE all_data_after(_, _)
all_data_after(files, k) ==
    IF k = 0 THEN <<>>
    ELSE LET loaded == load_csv_data(files, FileOrder[k][1], FileOrder[k][2], FileOrder[k][3])
         IN IF loaded.none THEN all_data_after(files, k - 1)
            ELSE Append(all_data_after(files, k - 1), loaded.rows)

\* pd.concat(all_data, ignore_index=True)
RECURSIVE concat(_)
concat(frames) ==
    IF Len(frames) = 0 THEN <<>> ELSE frames[1] \o concat(Tail(frames))

\* load_all_data giving up at the first file that is there and cannot be read.
load_all_data_stops_at_failure(files) ==
    LET unreadable == {k \in 1..Len(FileOrder) :
                          /\ FileOrder[k] \in DOMAIN files
                          /\ ~files[FileOrder[k]].readable}
        all_data == all_data_after(files, IF unreadable = {} THEN Len(FileOrder)
                                          ELSE Min(unreadable) - 1)
    IN IF Len(all_data) = 0 THEN [returned |-> TRUE, none |-> TRUE, rows |-> <<>>]
       ELSE [returned |-> TRUE, none |-> FALSE, rows |-> concat(all_data)]

\* load_all_data: None when no file gave a frame, else the frames joined.
load_all_data(files) ==
    LET all_data == all_data_after(files, Len(FileOrder))
    IN IF Len(all_data) = 0 THEN [returned |-> TRUE, none |-> TRUE, rows |-> <<>>]
       ELSE [returned |-> TRUE, none |-> FALSE, rows |-> concat(all_data)]

\* A row of a result file: type, timestamp, task_id, activation, response_time
\* (microseconds), deadline_met, lateness, period, deadline, weight.
ResultRow(task_id, response_time, deadline_met) ==
    [type |-> "TASK", timestamp |-> 100 * task_id, task_id |-> task_id,
     activation |-> 1, response_time |-> response_time, deadline_met |-> deadline_met,
     lateness |-> 0, period |-> 100, deadline |-> 100, weight |-> 1]

\* What a file of the directory holds: rows, or something pandas cannot read.
FileContents ==
    {[readable |-> FALSE, rows |-> <<>>],
     [readable |-> TRUE, rows |-> <<ResultRow(1, 1500, 1)>>],
     [readable |-> TRUE, rows |-> <<ResultRow(1, 2500, 1), ResultRow(2, 120000, 0)>>]}

\* The directories with at most MaxFiles files.
Directories ==
    {[name \in {FileOrder[at[i]] : i \in DOMAIN at} |->
         holds[CHOOSE i \in DOMAIN at : FileOrder[at[i]] = name]] :
        <<at, holds>> \in
            UNION {{q \in [1..n -> 1..Len(FileOrder)] :
                       \A i \in 1..(n - 1) : q[i] < q[i + 1]}
                     \X [1..n -> FileContents] : n \in 0..MaxFiles}}

\* load_all_data not called yet.
NotReturned == [returned |-> FALSE, none |-> FALSE, rows |-> <<>>]

-----------------------------------------------------------------------------
(* generate_graphs.py: the miss rates of the plot and of the summary report *)

\* df[(scheduler) & (workload) & (dynamic_weighting)]
dw_rows(rows, scheduler, workload, dw) ==
    SelectSeq(rows, LAMBDA r : /\ r["scheduler"] = scheduler
                               /\ r["workload"] = workload
                               /\ r["dynamic_weighting"] = dw)

\* 100 * (1 - x.mean()) over the deadline_met column of a group, as a fraction:
\* 100 * (n - sum) / n.
agg_miss_rate(rows) ==
    value(100 * (Len(rows) - sum(rows, "deadline_met")), Len(rows))

\* The bars of one scheduler for a setting of dynamic weighting: the miss rate
\* of each workload, 0 for a workload that groupby gives no line.
dw_values(rows, scheduler, dw) ==
    [w \in 1..Len(WORKLOADS) |->
        IF Len(dw_rows(rows, scheduler, WORKLOADS[w], dw)) > 0
        THEN agg_miss_rate(dw_rows(rows, scheduler, WORKLOADS[w], dw))
        ELSE value(0, 1)]

\* plot_dw_impact_on_deadline_misses: for each scheduler the bars with dynamic
\* weighting off and on.
plot_dw_impact_on_deadline_misses(rows) ==
    [idx \in 1..Len(SCHEDULERS) |->
        [off_values |-> dw_values(rows, SCHEDULERS[idx], "OFF"),
         on_values |-> dw_values(rows, SCHEDULERS[idx], "ON")]]

\* (dw_data['deadline_met'] == 0).sum()
total_misses(rows) == Len(SelectSeq(rows, LAMBDA r : r["deadline_met"] = 0))

\* generate_summary_report: the blocks written, in the order of the loops over
\* SCHEDULERS, WORKLOADS and DW_OPTIONS; a group without rows has no block.
\* Each block says the activations, the misses and the miss rate
\* 100 * misses / activations.
generate_summary_report(rows) ==
    LET block(k) ==
            LET dw_data == dw_rows(rows, FileOrder[k][1], FileOrder[k][2], FileOrder[k][3])
            IN [scheduler |-> FileOrder[k][1],
                workload |-> FileOrder[k][2],
                dw |-> FileOrder[k][3],
                total_activations |-> Len(dw_data),
                total_misses |-> total_misses(dw_data),
                miss_rate |-> IF Len(dw_data) > 0
                              THEN value(100 * total_misses(dw_data), Len(dw_data))
                              ELSE value(0, 1)]
    IN SelectSeq([k \in 1..Len(FileOrder) |-> block(k)],
                 LAMBDA b : b.total_activations # 0)

\* The files of the directories the plots are drawn from.
DwNames == {<<"EDF", "LIGHT", "OFF">>, <<"EDF", "LIGHT", "ON">>, <<"RMS", "HEAVY", "OFF">>}

\* The rows of those files: deadlines met (1), missed (0), and a row whose
\* deadline_met column holds another number.
DwResultRows == {ResultRow(1, 1500, 1), ResultRow(2, 120000, 0), ResultRow(1, 2500, 2)}

\* What a file holds: at most MaxRows rows, or something pandas cannot read.
DwContents ==
    {[readable |-> FALSE, rows |-> <<>>]}
      \cup {[readable |-> TRUE, rows |-> rows] :
               rows \in UNION {[1..n -> DwResultRows] : n \in 1..MaxRows}}

\* The directories with at most MaxFiles of those files.
DwDirectories ==
    UNION {[names -> DwContents] :
              names \in {S \in SUBSET DwNames : Cardinality(S) <= MaxFiles}}

-----------------------------------------------------------------------------
(* compare_schedulers.py: the comparison reports of summary.csv *)

\* The values of a column in the order in which they first appear: the keys of
\* the defaultdict the rows are appended to.
RECURSIVE keys_in_order(_, _)
keys_in_order(rows, key) ==
    IF Len(rows) = 0 THEN <<>>
    ELSE LET earlier == keys_in_order(SubSeq(rows, 1, Len(rows) - 1), key)
         IN IF \E k \in 1..Len(earlier) : earlier[k] = rows[Len(rows)][key]
            THEN earlier
            ELSE Append(earlier, rows[Len(rows)][key])

\* The list a defaultdict holds under one key: the rows with that value, in
\* the order of the file.
rows_with(rows, key, v) == SelectSeq(rows, LAMBDA r : r[key] = v)

\* float(x[column]) of a row, in tenths.
metric(row, column) == float_text(row[column]).value

\* sorted(rows, key=lambda x: float(x[column])): rows with equal keys stay in
\* the order they have in rows.
sorted_by_metric(rows, column) ==
    LET before(j, i) == \/ metric(rows[j], column) < metric(rows[i], column)
                        \/ /\ metric(rows[j], column) = metric(rows[i], column)
                           /\ j < i
        place == [i \in 1..Len(rows) |->
                    1 + Cardinality({j \in 1..Len(rows) : before(j, i)})]
    IN [p \in 1..Len(rows) |-> rows[CHOOSE i \in 1..Len(rows) : place[i] = p]]

\* The workload names of the files in the order in which Python compares
\* strings.
StringOrder == <<"", "Heavy", "Light", "Moderate", "Overload">>
StringRank(str) == CHOOSE k \in 1..Len(StringOrder) : StringOrder[k] = str

\* sorted(rows, key=lambda x: x['workload'])
sorted_by_workload(rows) ==
    LET before(j, i) == \/ StringRank(rows[j]["workload"]) < StringRank(rows[i]["workload"])
                        \/ /\ rows[j]["workload"] = rows[i]["workload"]
                           /\ j < i
        place == [i \in 1..Len(rows) |->
                    1 + Cardinality({j \in 1..Len(rows) : before(j, i)})]
    IN [p \in 1..Len(rows) |-> rows[CHOOSE i \in 1..Len(rows) : place[i] = p]]

\* The float(...) calls of the reports raise ValueError for a cell that is no
\* number.
raises_value_error(rows) ==
    \E i \in 1..Len(rows) :
        \E column \in {"miss_rate_percent", "avg_response_ms", "jitter_ms"} :
            float_text(rows[i][column]).raised # None

\* compare_by_workload: the tables printed, one for each workload in the order
\* of the dict, its lines sorted by miss rate.
compare_by_workload(rows) ==
    LET workloads == keys_in_order(rows, "workload")
    IN [g \in 1..Len(workloads) |->
          [workload_name |-> workloads[g],
           lines |-> LET ordered == sorted_by_metric(rows_with(rows, "workload",
                                                               workloads[g]),
                                                     "miss_rate_percent")
                     IN [p \in 1..Len(ordered) |->
                           [sched |-> ordered[p]["scheduler"],
                            miss_rate |-> metric(ordered[p], "miss_rate_percent"),
                            avg_resp |-> metric(ordered[p], "avg_response_ms"),
                            jitter |-> metric(ordered[p], "jitter_ms")]]]]

\* compare_by_scheduler: the tables printed, one for each scheduler in the
\* order of the dict, its lines sorted by the name of the workload.
compare_by_scheduler(rows) ==
    LET schedulers == keys_in_order(rows, "scheduler")
    IN [g \in 1..Len(schedulers) |->
          [sched_name |-> schedulers[g],
           lines |-> LET ordered == sorted_by_workload(rows_with(rows, "scheduler",
                                                                 schedulers[g]))
                     IN [p \in 1..Len(ordered) |->
                           [workload |-> ordered[p]["workload"],
                            miss_rate |-> metric(ordered[p], "miss_rate_percent"),
                            avg_resp |-> metric(ordered[p], "avg_response_ms")]]]]

\* min(rows, key=lambda x: float(x[column])): the first of the rows with the
\* least key.
min_by_metric(rows, column) ==
    rows[Min({i \in 1..Len(rows) :
                 \A j \in 1..Len(rows) : metric(rows[i], column) <= metric(rows[j], column)})]

\* find_best_scheduler taking the first row of each workload.
find_best_scheduler_first_row(rows) ==
    LET workloads == keys_in_order(rows, "workload")
    IN [g \in 1..Len(workloads) |->
          [workload_name |-> workloads[g],
           best_miss |-> rows_with(rows, "workload", workloads[g])[1],
           best_resp |-> rows_with(rows, "workload", workloads[g])[1],
           best_jitter |-> rows_with(rows, "workload", workloads[g])[1]]]

\* find_best_scheduler: for each workload in the order of the dict, the rows
\* with the lowest miss rate, average response time and jitter.
find_best_scheduler(rows) ==
    LET workloads == keys_in_order(rows, "workload")
    IN [g \in 1..Len(workloads) |->
          [workload_name |-> workloads[g],
           best_miss |-> min_by_metric(rows_with(rows, "workload", workloads[g]),
                                       "miss_rate_percent"),
           best_resp |-> min_by_metric(rows_with(rows, "workload", workloads[g]),
                                       "avg_response_ms"),
           best_jitter |-> min_by_metric(rows_with(rows, "workload", workloads[g]),
                                         "jitter_ms")]]

\* A row of summary.csv as csv.DictReader gives it.
SummaryRow(scheduler, workload, miss_rate, avg_response, jitter) ==
    [scheduler |-> scheduler, workload |-> workload, miss_rate_percent |-> miss_rate,
     avg_response_ms |-> avg_response, jitter_ms |-> jitter]

\* The rows of the files: schedulers at the workloads, two of them with the
\* same miss rate, one with an empty workload cell and one whose miss rate is
\* no number.
SummaryRows ==
    {SummaryRow("EDF", "Light", Cell(<<"5">>, "0"), Cell(<<"3">>, "0"), Cell(<<"1">>, "0")),
     SummaryRow("RMS", "Light", Cell(<<"5">>, "0"), Cell(<<"2">>, "0"), Cell(<<"2">>, "0")),
     SummaryRow("RMS", "Heavy", Cell(<<"2", "0">>, "0"), Cell(<<"4">>, "0"),
                Cell(<<"1">>, "0")),
     SummaryRow("EDF", "Heavy", Cell(<<"1", "0">>, "0"), Cell(<<"5">>, "0"),
                Cell(<<"0">>, "5")),
     SummaryRow("EDF", "Overload", Cell(<<"5", "0">>, "0"), Cell(<<"9">>, "0"),
                Cell(<<"3">>, "0")),
     SummaryRow("EDF", "Moderate", Cell(<<"7">>, "0"), Cell(<<"4">>, "0"),
                Cell(<<"1">>, "5")),
     SummaryRow("RMS", "", Cell(<<"1">>, "0"), Cell(<<"1">>, "0"), Cell(<<"1">>, "0")),
     SummaryRow("EDF", "Light", <<"n", "/", "a">>, Cell(<<"3">>, "0"), Cell(<<"1">>, "0"))}

\* The rows load_results returns: the rows of the file in their order.
SummaryFiles == UNION {[1..n -> SummaryRows] : n \in 0..MaxRows}

-----------------------------------------------------------------------------
(* performance_analyzer.py: the time between two cycles of a task *)

\* text.split(sep): the pieces of the text between the separators.
RECURSIVE split(_, _)
split(text, sep) ==
    LET at == {i \in 1..Len(text) : text[i] = sep}
    IN IF at = {} THEN <<text>>
       ELSE <<SubSeq(text, 1, Min(at) - 1)>>
              \o split(SubSeq(text, Min(at) + 1, Len(text)), sep)

\* parse_time of _time_diff: the time of day in milliseconds (total_seconds
\* times 1000), or the exception raised on the way: None has no split, a
\* missing part is an IndexError and a part that is no number a ValueError.
parse_time(time_str) ==
    IF time_str.none THEN [raised |-> "AttributeError", value |-> 0]
    ELSE LET parts == split(time_str.text, ":")
         IN IF int_text(parts[1]).raised # None
            THEN [raised |-> "ValueError", value |-> 0]
            ELSE IF Len(parts) < 2 THEN [raised |-> "IndexError", value |-> 0]
            ELSE IF int_text(parts[2]).raised # None
            THEN [raised |-> "ValueError", value |-> 0]
            ELSE IF Len(parts) < 3 THEN [raised |-> "IndexError", value |-> 0]
            ELSE LET sec_parts == split(parts[3], ".")
                 IN IF int_text(sec_parts[1]).raised # None
                    THEN [raised |-> "ValueError", value |-> 0]
                    ELSE IF Len(sec_parts) < 2 THEN [raised |-> "IndexError", value |-> 0]
                    ELSE IF int_text(sec_parts[2]).raised # None
                    THEN [raised |-> "ValueError", value |-> 0]
                    ELSE [raised |-> None,
                          value |-> int_text(parts[1]).value * 3600 * 1000
                                      + int_text(parts[2]).value * 60 * 1000
                                      + int_text(sec_parts[1]).value * 1000
                                      + int_text(sec_parts[2]).value]

\* _time_diff: t2 - t1 in milliseconds, t2 a day later when it is below t1, and
\* 0 when parse_time raises.
time_diff(time1, time2) ==
    LET t1 == parse_time(time1)
        t2 == parse_time(time2)
    IN IF t1.raised # None \/ t2.raised # None THEN 0
       ELSE IF t2.value < t1.value THEN t2.value + 24 * 3600 * 1000 - t1.value
       ELSE t2.value - t1.value

\* The text HH:MM:SS.mmm of a timestamp.
Stamp(hh, mm, ss, mmm) ==
    [none |-> FALSE, text |-> hh \o <<":">> \o mm \o <<":">> \o ss \o <<".">> \o mmm]

\* The timestamp of a line without one.
NoStamp == [none |-> TRUE, text |-> <<>>]

\* What _extract_task_cycles stores as the timestamp of a cycle: None, or the
\* text its regular expression \d{2}:\d{2}:\d{2}\.\d{3} has matched, whose
\* hours are any two digits.
Timestamps ==
    {NoStamp,
     Stamp(<<"0", "0">>, <<"0", "0">>, <<"0", "0">>, <<"0", "0", "0">>),
     Stamp(<<"0", "0">>, <<"0", "0">>, <<"0", "1">>, <<"5", "0", "0">>),
     Stamp(<<"0", "0">>, <<"5", "0">>, <<"0", "4">>, <<"0", "0", "4">>),
     Stamp(<<"2", "3">>, <<"5", "9">>, <<"5", "9">>, <<"9", "9", "9">>),
     Stamp(<<"2", "5">>, <<"0", "0">>, <<"0", "0">>, <<"0", "0", "0">>)}

\* The entries data['tasks'] holds for a task after parse_logs: the timestamps
\* of at most MaxLines lines.
CycleLists == UNION {[1..n -> Timestamps] : n \in 0..MaxLines}

-----------------------------------------------------------------------------
(* The run: main feeds the lines to parse_line one by one *)

\* The parser object as the handlers see it.
Self ==
    [tasks |-> tasks,
     timing_data |-> timing_data,
     scheduler_events |-> scheduler_events,
     memory_data |-> memory_data,
     emergency_events |-> emergency_events,
     safety_violations |-> safety_violations,
     simulation_time |-> simulation_time,
     raised |-> raised]

\* The fault-cycle sequence: the list under self.tasks['fault_cycles'], empty
\* when the key is absent or holds something that is not a list.
FaultCycles(t) ==
    IF "fault_cycles" \in DOMAIN t /\ IsList(t["fault_cycles"])
    THEN t["fault_cycles"].items ELSE <<>>

\* The sequences of records of a parser object, by name.
Containers(self) ==
    [timing_data |-> self.timing_data,
     scheduler_events |-> self.scheduler_events,
     memory_data |-> self.memory_data,
     emergency_events |-> self.emergency_events,
     safety_violations |-> self.safety_violations,
     fault_cycles |-> FaultCycles(self.tasks)]

ContainerNames == DOMAIN Containers(NewParser)

\* History: line k produced the records a container gained in this call.
Produced(o, before, after, k) ==
    IF Len(after) >= Len(before)
    THEN o \o [i \in 1..(Len(after) - Len(before)) |-> k]
    ELSE SubSeq(o, 1, Len(after))

\* The parser as main constructs it.
ParserInit ==
    /\ tasks = NewParser.tasks
    /\ timing_data = NewParser.timing_data
    /\ scheduler_events = NewParser.scheduler_events
    /\ memory_data = NewParser.memory_data
    /\ emergency_events = NewParser.emergency_events
    /\ safety_violations = NewParser.safety_violations
    /\ simulation_time = NewParser.simulation_time
    /\ raised = NewParser.raised
    /\ log = <<>>
    /\ origin = [c \in ContainerNames |-> <<>>]

\* plot_results.py not started, with no file to read.
CsvIdle ==
    /\ csv_file = <<>>
    /\ data = <<>>
    /\ csv_raised = None
    /\ plot = NoPlot
    /\ analysis = NoAnalysis
    /\ csv_pc = "load"
    /\ miss_rate_plot = <<>>
    /\ response_plot = <<>>

\* generate_graphs.py not started, with an empty directory.
LoadIdle ==
    /\ disk = [x \in {} |-> 0]
    /\ df = NotReturned

\* compare_schedulers.py not started, with no rows to read.
CompareIdle ==
    /\ results = <<>>
    /\ by_workload = <<>>
    /\ by_scheduler = <<>>
    /\ best = <<>>
    /\ compare_pc = "load"

\* The plots and the report of generate_graphs.py not made.
DwIdle ==
    /\ dw_plot = <<>>
    /\ summary_report = <<>>
    /\ dw_pc = "plot"

\* performance_analyzer.py with no entries for the task.
TimeIdle ==
    /\ cycles = <<>>
    /\ intervals = <<>>
    /\ time_diffs = <<>>

Init ==
    /\ ParserInit
    /\ monitor = NewMonitor
    /\ exported = NoFile
    /\ CsvIdle
    /\ LoadIdle
    /\ CompareIdle
    /\ DwIdle
    /\ TimeIdle

\* parse_line on the next line of the log, and the histories.
Feed(l) ==
    \E line \in {Written(l, Len(log) + 1)} :
    \E self \in {parse_line(Self, line.text)} :
        /\ tasks' = self.tasks
        /\ timing_data' = self.timing_data
        /\ scheduler_events' = self.scheduler_events
        /\ memory_data' = self.memory_data
        /\ emergency_events' = self.emergency_events
        /\ safety_violations' = self.safety_violations
        /\ simulation_time' = self.simulation_time
        /\ raised' = self.raised
        /\ log' = Append(log, line)
        /\ origin' = [c \in ContainerNames |->
                        Produced(origin[c], Containers(Self)[c],
                                 Containers(self)[c], Len(log) + 1)]

\* One turn of the loop of main: the next line goes through parse_line.  An
\* exception parse_line raises is not caught and ends the run.
ParseLine ==
    /\ raised = None
    /\ ~exported.written
    /\ Len(log) < MaxLines
    /\ \E l \in Lines : Feed(l)
    /\ UNCHANGED <<monitor, exported, csvVars, loadVars, otherVars>>

Next == ParseLine

Spec == Init /\ [][Next]_vars

\* main after the loop, run with --json: export_json writes the file.
ExportJson ==
    /\ raised = None
    /\ ~exported.written
    /\ exported' = [written |-> TRUE, doc |-> export_json(Self)]
    /\ UNCHANGED <<parserVars, monitor, csvVars, loadVars, otherVars>>

NextExport == ParseLine \/ ExportJson

SpecExport == Init /\ [][NextExport]_vars

\* The same line given to the parser and to the monitor, while neither has
\* raised: the loop of RealTimeMonitor.run beside the loop of main.
FeedBoth ==
    /\ raised = None
    /\ monitor.raised = None
    /\ Len(log) < MaxLines
    /\ \E l \in Lines :
          /\ Feed(l)
          /\ monitor' = process_line(monitor, Written(l, Len(log) + 1).text)
    /\ UNCHANGED <<exported, csvVars, loadVars, otherVars>>

NextMonitor == FeedBoth

SpecMonitor == Init /\ [][NextMonitor]_vars

\* plot_results.py, main: a file of results is there to be read.
InitCsv ==
    /\ ParserInit
    /\ monitor = NewMonitor
    /\ exported = NoFile
    /\ LoadIdle
    /\ csv_file \in CsvFiles
    /\ data = <<>>
    /\ csv_raised = None
    /\ plot = NoPlot
    /\ analysis = NoAnalysis
    /\ csv_pc = "load"
    /\ miss_rate_plot = <<>>
    /\ response_plot = <<>>
    /\ CompareIdle
    /\ DwIdle
    /\ TimeIdle

\* main: data = load_csv(csv_file); an exception of load_csv ends main.
LoadCsv ==
    /\ csv_pc = "load"
    /\ \E loaded \in {load_csv(csv_file)} :
          /\ data' = loaded.data
          /\ csv_raised' = loaded.raised
          /\ csv_pc' = IF loaded.raised = None THEN "miss_rate_by_load" ELSE "raised"
    /\ UNCHANGED <<parserVars, monitor, exported, loadVars, otherVars, csv_file, plot,
                   analysis, miss_rate_plot, response_plot>>

\* main: plot_miss_rate_by_load(data, output_dir)
PlotMissRateByLoad ==
    /\ csv_pc = "miss_rate_by_load"
    /\ miss_rate_plot' = plot_miss_rate_by_load(data)
    /\ csv_pc' = "response_time_analysis"
    /\ UNCHANGED <<parserVars, monitor, exported, loadVars, otherVars, csv_file, data,
                   csv_raised, plot, analysis, response_plot>>

\* main: plot_response_time_analysis(data, output_dir)
PlotResponseTimeAnalysis ==
    /\ csv_pc = "response_time_analysis"
    /\ response_plot' = plot_response_time_analysis(data)
    /\ csv_pc' = "plot"
    /\ UNCHANGED <<parserVars, monitor, exported, loadVars, otherVars, csv_file, data,
                   csv_raised, plot, analysis, miss_rate_plot>>

\* main: plot_normalized_miss_rate(data, output_dir); the other plots main
\* draws read data and leave it as it is.
PlotNormalizedMissRate ==
    /\ csv_pc = "plot"
    /\ plot' = plot_normalized_miss_rate(data)
    /\ csv_pc' = "report"
    /\ UNCHANGED <<parserVars, monitor, exported, loadVars, otherVars, csv_file, data,
                   csv_raised, analysis, miss_rate_plot, response_plot>>

\* main: generate_text_report(data, output_dir)
GenerateTextReport ==
    /\ csv_pc = "report"
    /\ analysis' = generate_text_report(data)
    /\ csv_pc' = "done"
    /\ UNCHANGED <<parserVars, monitor, exported, loadVars, otherVars, csv_file, data,
                   csv_raised, plot, miss_rate_plot, response_plot>>

NextCsv ==
    \/ LoadCsv
    \/ PlotMissRateByLoad
    \/ PlotResponseTimeAnalysis
    \/ PlotNormalizedMissRate
    \/ GenerateTextReport

SpecCsv == InitCsv /\ [][NextCsv]_vars

\* generate_graphs.py, main: a directory of result files is there to be read.
InitLoad ==
    /\ ParserInit
    /\ monitor = NewMonitor
    /\ exported = NoFile
    /\ CsvIdle
    /\ CompareIdle
    /\ DwIdle
    /\ TimeIdle
    /\ disk \in Directories
    /\ df = NotReturned

\* main: df = load_all_data()
LoadAllData ==
    /\ ~df.returned
    /\ df' = load_all_data(disk)
    /\ UNCHANGED <<parserVars, monitor, exported, csvVars, disk, otherVars>>

NextLoad == LoadAllData

SpecLoad == InitLoad /\ [][NextLoad]_vars

\* compare_schedulers.py, main: load_results has read the rows of summary.csv.
InitCompare ==
    /\ ParserInit
    /\ monitor = NewMonitor
    /\ exported = NoFile
    /\ CsvIdle
    /\ LoadIdle
    /\ DwIdle
    /\ TimeIdle
    /\ results \in SummaryFiles
    /\ by_workload = <<>>
    /\ by_scheduler = <<>>
    /\ best = <<>>
    /\ compare_pc = "load"

\* main: results = load_results(csv_path); main ends when there are no rows.
LoadResults ==
    /\ compare_pc = "load"
    /\ compare_pc' = IF Len(results) = 0 THEN "exit" ELSE "by_workload"
    /\ UNCHANGED <<parserVars, monitor, exported, csvVars, loadVars, dwVars, timeVars,
                   results, by_workload, by_scheduler, best>>

\* main: compare_by_workload(results); a ValueError of float ends main.
CompareByWorkload ==
    /\ compare_pc = "by_workload"
    /\ IF raises_value_error(results)
       THEN compare_pc' = "raised" /\ UNCHANGED by_workload
       ELSE compare_pc' = "by_scheduler" /\ by_workload' = compare_by_workload(results)
    /\ UNCHANGED <<parserVars, monitor, exported, csvVars, loadVars, dwVars, timeVars,
                   results, by_scheduler, best>>

\* main: compare_by_scheduler(results)
CompareByScheduler ==
    /\ compare_pc = "by_scheduler"
    /\ by_scheduler' = compare_by_scheduler(results)
    /\ compare_pc' = "find_best"
    /\ UNCHANGED <<parserVars, monitor, exported, csvVars, loadVars, dwVars, timeVars,
                   results, by_workload, best>>

\* main: find_best_scheduler(results)
FindBestScheduler ==
    /\ compare_pc = "find_best"
    /\ best' = find_best_scheduler(results)
    /\ compare_pc' = "done"
    /\ UNCHANGED <<parserVars, monitor, exported, csvVars, loadVars, dwVars, timeVars,
                   results, by_workload, by_scheduler>>

NextCompare ==
    \/ LoadResults
    \/ CompareByWorkload
    \/ CompareByScheduler
    \/ FindBestScheduler

SpecCompare == InitCompare /\ [][NextCompare]_vars

\* generate_graphs.py, main, before df = load_all_data().
InitDw ==
    /\ ParserInit
    /\ monitor = NewMonitor
    /\ exported = NoFile
    /\ CsvIdle
    /\ CompareIdle
    /\ TimeIdle
    /\ disk \in DwDirectories
    /\ df = NotReturned
    /\ dw_plot = <<>>
    /\ summary_report = <<>>
    /\ dw_pc = "plot"

\* main: plot_dw_impact_on_deadline_misses(df), reached when df is neither None
\* nor empty.
PlotDwImpactOnDeadlineMisses ==
    /\ dw_pc = "plot"
    /\ df.returned
    /\ ~df.none
    /\ Len(df.rows) > 0
    /\ dw_plot' = plot_dw_impact_on_deadline_misses(df.rows)
    /\ dw_pc' = "report"
    /\ UNCHANGED <<parserVars, monitor, exported, csvVars, loadVars, compareVars, timeVars,
                   summary_report>>

\* main: generate_summary_report(df)
GenerateSummaryReport ==
    /\ dw_pc = "report"
    /\ summary_report' = generate_summary_report(df.rows)
    /\ dw_pc' = "done"
    /\ UNCHANGED <<parserVars, monitor, exported, csvVars, loadVars, compareVars, timeVars,
                   dw_plot>>

NextDw ==
    \/ LoadAllData
    \/ PlotDwImpactOnDeadlineMisses
    \/ GenerateSummaryReport

SpecDw == InitDw /\ [][NextDw]_vars

\* performance_analyzer.py: generate_task_frequency_report at the cycles of a
\* task, intervals = [].
InitTime ==
    /\ ParserInit
    /\ monitor = NewMonitor
    /\ exported = NoFile
    /\ CsvIdle
    /\ LoadIdle
    /\ CompareIdle
    /\ DwIdle
    /\ cycles \in CycleLists
    /\ intervals = <<>>
    /\ time_diffs = <<>>

\* generate_task_frequency_report: one turn of the loop over range(1,
\* len(cycles)); time_diffs keeps the arguments and the result of each call of
\* _time_diff.
TimeDiff ==
    /\ Len(time_diffs) + 1 < Len(cycles)
    /\ \E i \in {Len(time_diffs) + 1} :
       \E result \in {time_diff(cycles[i], cycles[i + 1])} :
           /\ time_diffs' = Append(time_diffs, [time1 |-> cycles[i],
                                                time2 |-> cycles[i + 1],
                                                returned |-> result])
           /\ intervals' = IF result > 0 THEN Append(intervals, result) ELSE intervals
    /\ UNCHANGED <<parserVars, monitor, exported, csvVars, loadVars, compareVars, dwVars,
                   cycles>>

NextTime == TimeDiff

SpecTime == InitTime /\ [][NextTime]_vars

-----------------------------------------------------------------------------
(* What the lines of the log say, read from what they were written from *)

\* The line parse_line has just been given.
Current == log[Len(log)]

\* The N of the most recent marker line among the first k - 1 lines, 0 if none.
ClockBefore(k) ==
    LET ms == {j \in 1..(k - 1) : log[j].kind = "marker"}
    IN IF ms = {} THEN 0 ELSE log[Max(ms)].n

\* The simulation time a record carries, -1 when it carries none.
StampOf(r) ==
    IF "simulation_time" \in DOMAIN r THEN r.simulation_time
    ELSE IF "simulation_seconds" \in DOMAIN r THEN r.simulation_seconds
    ELSE -1

\* The branch tests of parse_line in their order, for a line's text.
BranchTests(text) ==
    <<Contains(text, TaskCompleted),
      Contains(text, SimulationTimeElapsed),
      Contains(text, SchedulerState),
      Contains(text, ContextSwitch),
      Contains(text, EMERGENCY),
      Contains(text, SafetyViolationDetected),
      Contains(text, TimingAnalysisReport),
      search(patterns.memory_analysis, text).matched,
      search(patterns.fault_detection, text).matched>>

\* The first branch whose test holds, 0 when none does.
FirstBranch(text) ==
    IF Contains(text, TaskCompleted) THEN 1
    ELSE IF Contains(text, SimulationTimeElapsed) THEN 2
    ELSE IF Contains(text, SchedulerState) THEN 3
    ELSE IF Contains(text, ContextSwitch) THEN 4
    ELSE IF Contains(text, EMERGENCY) THEN 5
    ELSE IF Contains(text, SafetyViolationDetected) THEN 6
    ELSE IF Contains(text, TimingAnalysisReport) THEN 7
    ELSE IF search(patterns.memory_analysis, text).matched THEN 8
    ELSE IF search(patterns.fault_detection, text).matched THEN 9
    ELSE 0

\* The regular expression of each branch, and the container each branch fills.
BranchPattern ==
    <<patterns.task_completion, patterns.simulation_time, patterns.scheduler_state,
      patterns.context_switch, patterns.emergency, patterns.safety_violation,
      patterns.timing_analysis, patterns.memory_analysis, patterns.fault_detection>>

BranchContainer ==
    <<"tasks", "timing_data", "scheduler_events", "scheduler_events",
      "emergency_events", "safety_violations", "timing_data", "memory_data", "tasks">>

\* The line is handled as a time marker: it reaches the marker branch and
\* matches the marker's regular expression.
HandledAsMarker(text) ==
    FirstBranch(text) = 2 /\ search(patterns.simulation_time, text).matched

-----------------------------------------------------------------------------
(* Claims *)

C2_ClockChangesOnlyOnMarker ==
    [][simulation_time' # simulation_time => HandledAsMarker(Current'.text)]_vars

\* C2 witness: the clock set by a marker has survived a timing report and a
\* safety violation.
C2_Witness ==
    /\ Len(log) = 3
    /\ log[1].kind = "marker"
    /\ log[2].kind = "timing_report"
    /\ log[3].kind = "safety_violation"
    /\ simulation_time = log[1].n
    /\ Len(safety_violations) = 1

\* C3 as stated: every event, task-completion and context-switch records
\* included, carries the clock value of the moment its line was classified.
C3_EveryEventCarriesClock ==
    /\ \A i \in 1..Len(scheduler_events) :
           StampOf(scheduler_events[i]) = ClockBefore(origin.scheduler_events[i])
    /\ \A name \in DOMAIN tasks :
           ~IsList(tasks[name]) =>
               \E k \in 1..Len(log) :
                   /\ log[k].kind = "task" /\ log[k].a = name
                   /\ StampOf(tasks[name]) = ClockBefore(k)

\* C4 as stated: simulation_time never decreases from one call to the next.
C4_ClockNeverDecreases ==
    [][simulation_time' >= simulation_time]_vars

\* C4 amended: simulation_time decreases from one call to the next only when
\* the call handles a marker line whose N is smaller than the current value,
\* and it then becomes that N.
C4_ClockDecreasesOnlyByMarker ==
    [][simulation_time' < simulation_time =>
          /\ Current'.kind = "marker"
          /\ simulation_time' = Current'.n]_vars

\* C4 witness: a marker, another line, then a marker with a smaller N.
C4_Witness ==
    /\ Len(log) = 3
    /\ log[1].kind = "marker" /\ log[2].kind # "marker" /\ log[3].kind = "marker"
    /\ log[3].n < log[1].n
    /\ simulation_time = log[3].n

\* C5: a marker line sets simulation_time to its N whatever the value before,
\* and appends exactly one timing_data entry carrying N.
C5_MarkerSetsClock ==
    [][Current'.kind = "marker" =>
          /\ simulation_time' = Current'.n
          /\ timing_data' = Append(timing_data,
                                   [timestamp |-> TimeText(Len(log')),
                                    simulation_seconds |-> Current'.n])]_vars

\* C5 witness: a marker directly followed by a marker with a smaller N, which
\* the clock now shows.
C5_Witness ==
    /\ Len(log) >= 2
    /\ log[Len(log)].kind = "marker" /\ log[Len(log) - 1].kind = "marker"
    /\ log[Len(log)].n < log[Len(log) - 1].n
    /\ simulation_time = log[Len(log)].n
    /\ timing_data[Len(timing_data)].simulation_seconds = simulation_time

\* The containers a call has changed, and the number of records stored.
Changed(before, after) ==
    {c \in {"tasks", "timing_data", "scheduler_events", "memory_data",
            "emergency_events", "safety_violations"} : before[c] # after[c]}

RecordCount(self) ==
    Len(self.timing_data) + Len(self.scheduler_events) + Len(self.memory_data)
      + Len(self.emergency_events) + Len(self.safety_violations)
      + Len(FaultCycles(self.tasks))
      + Cardinality({name \in DOMAIN self.tasks : ~IsList(self.tasks[name])})

\* C6: a line satisfying one or more branch tests is handled by the earliest
\* branch only: the call changes no container but that branch's, and adds at
\* most one record.
C6_FirstBranchOnly ==
    [][\A b \in {FirstBranch(Current'.text)} :
          b # 0 => /\ Changed(Self, Self') \subseteq {BranchContainer[b]}
                   /\ RecordCount(Self') <= RecordCount(Self) + 1]_vars

\* C6 witness: an emergency line whose message holds 'Safety violation
\* detected' has been stored as an emergency and as nothing else.
C6_Witness ==
    /\ Len(log) >= 1
    /\ Cardinality({b \in 1..9 : BranchTests(Current.text)[b]}) = 2
    /\ Contains(Current.text, SafetyViolationDetected)
    /\ Len(emergency_events) = 1
    /\ origin.emergency_events[1] = Len(log)
    /\ Len(safety_violations) = 0

\* C7: a line satisfying no branch test leaves the whole parser state as it was.
C7_UnrecognisedLineChangesNothing ==
    [][FirstBranch(Current'.text) = 0 => Self' = Self]_vars

\* C7 witness: an unrecognised line has gone through a parser that holds a
\* clock value, a task record and an emergency.
C7_Witness ==
    /\ Len(log) = 3
    /\ FirstBranch(Current.text) = 0
    /\ log[1].kind = "marker" /\ simulation_time = log[1].n
    /\ Len(timing_data) = 1
    /\ Len(emergency_events) = 1

\* C8 as stated: a line that holds a branch's substring and does not match the
\* branch's regular expression stores nothing, changes nothing and raises
\* nothing, in every branch.
C8_NearMissChangesNothing ==
    [][\A b \in {FirstBranch(Current'.text)} :
          (b # 0 /\ ~search(BranchPattern[b], Current'.text).matched)
             => Self' = Self]_vars

\* The task-completion lines of the log for a name.
TaskLinesFor(name) ==
    {k \in 1..Len(log) : log[k].kind = "task" /\ log[k].a = name}

\* C9: for each task name the stored task record holds exactly the count and
\* unit of the last task-completion line for that name, and a name with no
\* such line has no task record.
C9_LastValueWins ==
    \A name \in TaskNames :
        IF TaskLinesFor(name) = {}
        THEN name \notin DOMAIN tasks \/ IsList(tasks[name])
        ELSE /\ name \in DOMAIN tasks
             /\ ~IsList(tasks[name])
             /\ tasks[name].count = log[Max(TaskLinesFor(name))].n
             /\ tasks[name].unit = log[Max(TaskLinesFor(name))].b

\* C9 witness: two completion lines of one task with different counts and a
\* line of another kind between them; the record shows the second.
C9_Witness ==
    /\ Len(log) = 3
    /\ log[1].kind = "task" /\ log[3].kind = "task" /\ log[2].kind # "task"
    /\ log[1].a = log[3].a /\ log[1].n # log[3].n
    /\ tasks[log[3].a].count = log[3].n
    /\ tasks[log[3].a].unit = log[3].b

\* C10 as stated: after any sequence of lines that parse_line has processed
\* without raising, the fault-cycle sequence holds exactly one record per
\* fault-detection line, in input order, whatever task-completion lines there are.
C10_FaultCyclesKeptApart ==
    LET faults == SelectSeq(log, LAMBDA l : l.kind = "fault")
        seq == FaultCycles(tasks)
    IN raised = None =>
          /\ Len(seq) = Len(faults)
          /\ \A i \in 1..Len(seq) :
                 seq[i].cycle = faults[i].n /\ seq[i].thread_id = faults[i].a

\* C11 as stated: no call of parse_line raises, whatever the lines, their order
\* and the task names.
C11_NeverRaises ==
    raised = None

\* s is a prefix of t.
IsPrefix(s, t) == Len(s) <= Len(t) /\ SubSeq(t, 1, Len(s)) = s

\* C12 as stated: each record sequence, the fault-cycle sequence included, only
\* grows at its end: a call leaves every record already stored in its place.
C12_RecordsOnlyAppended ==
    [][\A c \in ContainerNames :
          IsPrefix(Containers(Self)[c], Containers(Self')[c])]_vars

\* C13: get_summary reports the current simulation_time as the duration, the
\* lengths of the stored sequences as the per-category counts, and the number
\* of lines handled by the timing-report branch as timing_reports_count.
C13_SummaryCounts ==
    /\ get_summary(Self).simulation_duration = simulation_time
    /\ get_summary(Self).scheduler_events_count = Len(scheduler_events)
    /\ get_summary(Self).emergency_events_count = Len(emergency_events)
    /\ get_summary(Self).safety_violations_count = Len(safety_violations)
    /\ get_summary(Self).memory_entries_count = Len(memory_data)
    /\ get_summary(Self).timing_reports_count =
           Cardinality({k \in 1..Len(log) : FirstBranch(log[k].text) = 7})

\* C13 witness: a marker and a timing report are both in timing_data, and the
\* summary counts one report at the marker's time.
C13_Witness ==
    /\ Len(log) = 3
    /\ log[1].kind = "marker" /\ log[2].kind = "timing_report"
    /\ log[3].kind = "memory"
    /\ Len(timing_data) = 2
    /\ get_summary(Self).timing_reports_count = 1
    /\ get_summary(Self).simulation_duration = log[1].n
    /\ get_summary(Self).memory_entries_count = 1

\* The records a call has added, with their time stamp emptied.
UnstampNew(before, after) ==
    [i \in 1..Len(after) |->
        IF i > Len(before) THEN [after[i] EXCEPT !.timestamp = None] ELSE after[i]]

UnstampNewTasks(before, after) ==
    [name \in DOMAIN after |->
        IF IsList(after[name])
        THEN [items |-> UnstampNew(FaultCycles(before), after[name].items)]
        ELSE IF name \in DOMAIN before /\ before[name] = after[name]
        THEN after[name]
        ELSE [after[name] EXCEPT !.completion_time = None]]

Unstamped(before, after) ==
    [tasks |-> UnstampNewTasks(before.tasks, after.tasks),
     timing_data |-> UnstampNew(before.timing_data, after.timing_data),
     scheduler_events |-> UnstampNew(before.scheduler_events, after.scheduler_events),
     memory_data |-> UnstampNew(before.memory_data, after.memory_data),
     emergency_events |-> UnstampNew(before.emergency_events, after.emergency_events),
     safety_violations |-> UnstampNew(before.safety_violations, after.safety_violations),
     simulation_time |-> after.simulation_time,
     raised |-> after.raised]

\* A line's text without its leading time stamp.
WithoutStamp(text) ==
    IF Len(text) >= 3 /\ text[1] = "[" /\ text[3] = "]"
    THEN SubSeq(text, 4, Len(text)) ELSE text

\* C15: whenever parse_line handles a line, the same line without its leading
\* time stamp would at that moment have given the same result with the time
\* stamp of the stored record left empty: the same branch, the same record,
\* the same clock, and an exception only if the stamped line raises one too.
C15_TimestampIsOptional ==
    [][\A body \in {WithoutStamp(Current'.text)} :
          /\ Timestamp(body) = None
          /\ FirstBranch(body) = FirstBranch(Current'.text)
          /\ parse_line(Self, body) = Unstamped(Self, Self')]_vars

\* C15 witness: a line without a time stamp has been stored, its record's time
\* stamp empty, after a stamped line set the clock the record carries.
C15_Witness ==
    /\ Len(log) = 2
    /\ log[1].kind = "marker"
    /\ ~Contains(log[2].text, <<"[">>)
    /\ Len(safety_violations) = 1
    /\ safety_violations[1] = [timestamp |-> None, simulation_time |-> log[1].n]

-----------------------------------------------------------------------------
(* C14: the JSON file read back *)

\* C14: what export_json writes, loaded again, holds the records the parser
\* holds: every list record for record and field for field (a missing time stamp
\* comes back as None, a number as a number), the tasks with their records and
\* lists, and the summary; and the lists analyze_json_output reads are those.
C14_RoundTrip ==
    exported.written =>
        \E loaded \in {json_load(exported.doc)} :
        \E read \in {analyze_json_output(exported.doc)} :
            /\ \A c \in {"timing_data", "scheduler_events", "memory_data",
                         "emergency_events", "safety_violations"} :
                   get(loaded, c, [items |-> <<>>]).items = Self[c]
            /\ get(loaded, "tasks", <<>>) = tasks
            /\ get(loaded, "summary", <<>>) = get_summary(Self)
            /\ read.timing_data = timing_data
            /\ read.scheduler_events = scheduler_events
            /\ read.emergency_events = emergency_events
            /\ read.safety_violations = safety_violations

\* A file written after a fault line, a task line and a safety line without
\* time stamp: it holds an array and an object under tasks, and a null.
C14_Witness ==
    /\ exported.written
    /\ Len(log) = 3
    /\ log[1].kind = "fault"
    /\ log[2].kind = "task" /\ log[2].a = "Navigation"
    /\ log[3].kind = "near_safety"
    /\ exported.doc.v["tasks"].v["fault_cycles"].t = "array"
    /\ exported.doc.v["tasks"].v["Navigation"].t = "object"
    /\ exported.doc.v["safety_violations"].v[1].v["timestamp"].t = "null"
    /\ Len(json_load(exported.doc)["tasks"]["fault_cycles"].items) = 1

-----------------------------------------------------------------------------
(* C16: the monitor beside the parser *)

\* C16: after each line given to both, the monitor's last_simulation_time is the
\* parser's simulation_time, its emergency_count the number of the parser's
\* emergency events and its safety_violations the number of the parser's safety
\* violations.
C16_MonitorAgreesWithParser ==
    /\ monitor.last_simulation_time = simulation_time
    /\ monitor.emergency_count = Len(emergency_events)
    /\ monitor.safety_violations = Len(safety_violations)

-----------------------------------------------------------------------------
(* C17: the optional columns of the CSV *)

\* The required columns of every row of the file are there and are numbers.
RequiredNumeric(file) ==
    \A i \in 1..Len(file) : \A k \in 1..Len(conversions) :
        conversions[k].required =>
            /\ conversions[k].column \in DOMAIN file[i]
            /\ convert(file[i], conversions[k]).raised = None

\* C17: for a file whose required columns are there and numeric, load_csv
\* raises nothing and returns a record for every row, with 0 in every optional
\* column the file does not have.
C17_OptionalColumnsNeverRaise ==
    (csv_pc # "load" /\ RequiredNumeric(csv_file)) =>
        /\ csv_raised = None
        /\ Len(data) = Len(csv_file)
        /\ \A i \in 1..Len(data) : \A c \in OptionalColumns \ DOMAIN csv_file[i] :
               data[i][c] = 0

-----------------------------------------------------------------------------
(* C18: the files load_all_data skips *)

\* The files, by their place in the order of the loops, that are there and can
\* be read.
GoodFiles ==
    {k \in 1..Len(FileOrder) : /\ FileOrder[k] \in DOMAIN disk
                               /\ disk[FileOrder[k]].readable}

\* The number of rows of the readable files before place k.
RECURSIVE RowsBefore(_)
RowsBefore(k) ==
    IF k <= 1 THEN 0
    ELSE RowsBefore(k - 1)
           + (IF k - 1 \in GoodFiles THEN Len(disk[FileOrder[k - 1]].rows) ELSE 0)

\* C18: load_all_data returns None exactly when no file could be read; else it
\* returns the rows of every readable file, each as load_csv_data gave it, file
\* after file, and nothing else.
C18_OnlyFailedFilesSkipped ==
    df.returned =>
        /\ df.none <=> GoodFiles = {}
        /\ Len(df.rows) = RowsBefore(Len(FileOrder) + 1)
        /\ \A k \in GoodFiles : \A i \in 1..Len(disk[FileOrder[k]].rows) :
               df.rows[RowsBefore(k) + i]
                 = load_csv_data(disk, FileOrder[k][1], FileOrder[k][2],
                                 FileOrder[k][3]).rows[i]

\* load_all_data has returned the rows of a file that comes after a file it
\* could not read.
C18_Witness ==
    /\ df.returned
    /\ ~df.none
    /\ \E j, k \in 1..Len(FileOrder) :
          /\ j < k
          /\ FileOrder[j] \in DOMAIN disk
          /\ ~disk[FileOrder[j]].readable
          /\ GoodFiles = {k}
          /\ Len(df.rows) = Len(disk[FileOrder[k]].rows)
          /\ df.rows[1].scheduler = FileOrder[k][1]

-----------------------------------------------------------------------------
(* C19: the efficiency bands *)

\* The band of an average normalized miss rate (a sum of tenths over n rows):
\* below 10, below 25, below 50, or 50 and above.
Band(a) ==
    IF a.sum < 100 * a.n THEN "excellent"
    ELSE IF a.sum < 250 * a.n THEN "good"
    ELSE IF a.sum < 500 * a.n THEN "acceptable"
    ELSE "poor"

ColourOfBand ==
    [excellent |-> "darkgreen", good |-> "green", acceptable |-> "orange",
     poor |-> "red"]

TextOfBand ==
    [excellent |-> "EXCELLENT - Very efficient",
     good |-> "GOOD - Reasonably efficient",
     acceptable |-> "ACCEPTABLE - Moderate efficiency",
     poor |-> "POOR - Low efficiency"]

\* C19: the bar of a scheduler and the efficiency line of its report are given
\* for the same average, and both by its band: below 10 excellent, below 25
\* good, below 50 acceptable, else poor; an average of exactly 10 is good, of
\* exactly 25 acceptable and of exactly 50 poor.
C19_SameBandsAtBothSites ==
    csv_pc = "done" =>
        \A p \in 1..Len(plot.sorted_scheds) :
        \E s \in {plot.sorted_scheds[p]} :
        \E v \in {plot.sorted_norms[p]} :
            /\ analysis[s].avg_normalized = v
            /\ plot.colors[p] = ColourOfBand[Band(v)]
            /\ analysis[s].efficiency = TextOfBand[Band(v)]
            /\ v.sum = 100 * v.n => plot.colors[p] = "green"
            /\ v.sum = 250 * v.n => plot.colors[p] = "orange"
            /\ v.sum = 500 * v.n => plot.colors[p] = "red"

\* A report and a chart of two schedulers, one with an average of exactly 10
\* and one with an average of exactly 50.
C19_Witness ==
    /\ csv_pc = "done"
    /\ Len(plot.colors) = 2
    /\ plot.sorted_norms[1].sum = 100 * plot.sorted_norms[1].n
    /\ plot.sorted_norms[2].sum = 500 * plot.sorted_norms[2].n
    /\ plot.colors = <<"green", "red">>
    /\ analysis[plot.sorted_scheds[1]].efficiency = "GOOD - Reasonably efficient"
    /\ analysis[plot.sorted_scheds[2]].efficiency = "POOR - Low efficiency"

-----------------------------------------------------------------------------
(* C20: the normalized miss rate of a group *)

\* C20: the normalized miss rate the report gives for a scheduler is its miss
\* rate divided by its utilization, and 0 when the utilization is 0.  With the
\* averages held as sums of tenths over n rows, normalized = miss / utilization
\* reads normalized.sum * utilization.sum = 10 * n * miss.sum.
C20_NormalizedIsMissOverUtilization ==
    csv_pc = "done" =>
        \A s \in DOMAIN analysis :
            IF analysis[s].avg_util.sum = 0
            THEN analysis[s].avg_normalized.sum = 0
            ELSE analysis[s].avg_normalized.sum * analysis[s].avg_util.sum
                   = 10 * analysis[s].scenarios * analysis[s].avg_miss.sum

-----------------------------------------------------------------------------
(* C28: the number of tasks of the summary *)

\* The task names for which a task-completion record is stored.
NamesWithRecord == {name \in DOMAIN tasks : ~IsList(tasks[name])}

\* C28: total_tasks of the summary is the number of distinct task names that
\* have a task-completion record stored; fault-detection lines do not count.
C28_TotalTasksCountsTaskRecords ==
    get_summary(Self).total_tasks = Cardinality(NamesWithRecord)

-----------------------------------------------------------------------------
(* C29: the monitor and its exceptions *)

\* C29: process_line raises for no line.
C29_MonitorNeverRaises == monitor.raised = None

-----------------------------------------------------------------------------
(* C21: the order of the rows *)

\* The orders in which n rows can come.
Orders(n) == {p \in [1..n -> 1..n] : \A i, j \in 1..n : p[i] = p[j] => i = j}

\* C21: whatever the order of the rows, plot_miss_rate_by_load,
\* plot_response_time_analysis and generate_text_report give every group the
\* figures they gave it for the order of the file.
C21_AggregationIgnoresOrder ==
    csv_pc = "done" =>
        \A p \in Orders(Len(data)) :
        \E permuted \in {[i \in 1..Len(data) |-> data[p[i]]]} :
            /\ generate_text_report(permuted) = analysis
            /\ plot_response_time_analysis(permuted) = response_plot
            /\ plot_miss_rate_by_load(permuted) = miss_rate_plot

-----------------------------------------------------------------------------
(* C23: the groups without rows *)

\* C23: a scheduler with no row at a load has None, not a number, as its
\* average response time, its maximum response time and its jitter there.
C23_EmptyGroupIsAbsent ==
    csv_pc = "done" =>
        \A sched \in DOMAIN response_plot.avg_rt_by_load : \A l \in 1..Len(loads) :
            Len(rows_at(data, sched, loads[l])) = 0 =>
                /\ response_plot.avg_rt_by_load[sched][l].none
                /\ response_plot.max_rt_by_load[sched][l].none
                /\ response_plot.jitter_by_load[sched][l].none

-----------------------------------------------------------------------------
(* C22: the groups of compare_by_workload *)

\* C22: the tables of compare_by_workload are a partition of the rows that have
\* a workload: each table holds exactly the rows of its workload, a workload has
\* one table, and a row whose workload cell is empty is in no table.
C22_GroupingIsPartition ==
    compare_pc \in {"by_scheduler", "find_best", "done"} =>
        /\ \A g, h \in 1..Len(by_workload) :
               by_workload[g].workload_name = by_workload[h].workload_name => g = h
        /\ \A g \in 1..Len(by_workload) :
               /\ by_workload[g].workload_name # ""
               /\ Len(by_workload[g].lines)
                    = Cardinality({i \in 1..Len(results) :
                                     results[i]["workload"] = by_workload[g].workload_name})
        /\ \A i \in 1..Len(results) :
               results[i]["workload"] # "" =>
                   \E g \in 1..Len(by_workload) :
                       by_workload[g].workload_name = results[i]["workload"]

-----------------------------------------------------------------------------
(* C24: the ranking of schedulers with equal miss rates *)

\* The schedulers of each workload in the order of their lines.
Ranking(report) ==
    [w \in {report[g].workload_name : g \in 1..Len(report)} |->
        LET g == CHOOSE h \in 1..Len(report) : report[h].workload_name = w
        IN [p \in 1..Len(report[g].lines) |-> report[g].lines[p].sched]]

\* C24: whatever the order of the rows, compare_by_workload ranks the
\* schedulers of each workload the same way.
C24_RankingIgnoresOrder ==
    compare_pc \in {"by_scheduler", "find_best", "done"} =>
        \A p \in Orders(Len(results)) :
            Ranking(compare_by_workload([i \in 1..Len(results) |-> results[p[i]]]))
              = Ranking(by_workload)

-----------------------------------------------------------------------------
(* C25: the best scheduler of each workload *)

\* C25: find_best_scheduler names each workload that has a row once and no
\* other workload, and for each metric a row of that workload whose value is
\* not above that of any row of the workload.
C25_BestIsMinimal ==
    compare_pc = "done" =>
        /\ {best[g].workload_name : g \in 1..Len(best)}
             = {results[i]["workload"] : i \in 1..Len(results)}
        /\ \A g, h \in 1..Len(best) :
               best[g].workload_name = best[h].workload_name => g = h
        /\ \A g \in 1..Len(best) :
           \A pick \in {<<best[g].best_miss, "miss_rate_percent">>,
                        <<best[g].best_resp, "avg_response_ms">>,
                        <<best[g].best_jitter, "jitter_ms">>} :
               /\ \E i \in 1..Len(results) : results[i] = pick[1]
               /\ pick[1]["workload"] = best[g].workload_name
               /\ \A i \in 1..Len(results) :
                      results[i]["workload"] = best[g].workload_name =>
                          metric(pick[1], pick[2]) <= metric(results[i], pick[2])

\* Two rows of one workload, the second with the lower miss rate and jitter and
\* the first with the lower response time: each best row is the lower one and
\* no other workload is named.
C25_Witness ==
    /\ compare_pc = "done"
    /\ Len(results) = 2
    /\ results[1]["workload"] = "Heavy"
    /\ results[2]["workload"] = "Heavy"
    /\ metric(results[2], "miss_rate_percent") < metric(results[1], "miss_rate_percent")
    /\ metric(results[1], "jitter_ms") > metric(results[2], "jitter_ms")
    /\ Len(best) = 1
    /\ best[1].best_miss = results[2]
    /\ best[1].best_jitter = results[2]
    /\ best[1].best_resp = results[1]

-----------------------------------------------------------------------------
(* C26: the order of the groups in the reports *)

\* The workloads from the lightest to the most severe.
Severity == <<"Light", "Moderate", "Heavy", "Overload">>
SeverityRank(w) ==
    IF \E k \in 1..Len(Severity) : Severity[k] = w
    THEN CHOOSE k \in 1..Len(Severity) : Severity[k] = w
    ELSE 0

\* The scheduler names in ascending order.
Ascending == <<"EDF", "RMS", "WEIGHTED_EDF", "WSRT">>
AscendingRank(name) == CHOOSE k \in 1..Len(Ascending) : Ascending[k] = name

\* C26: compare_by_scheduler prints the schedulers in ascending order of their
\* names and the workloads of each scheduler from Light to Overload.
C26_ReportOrder ==
    compare_pc \in {"find_best", "done"} =>
        /\ \A g, h \in 1..Len(by_scheduler) :
               g < h => AscendingRank(by_scheduler[g].sched_name)
                          < AscendingRank(by_scheduler[h].sched_name)
        /\ \A g \in 1..Len(by_scheduler) :
           \A p, q \in 1..Len(by_scheduler[g].lines) :
               p < q => SeverityRank(by_scheduler[g].lines[p].workload)
                          <= SeverityRank(by_scheduler[g].lines[q].workload)

-----------------------------------------------------------------------------
(* C27: the miss rate of the plot and the miss rate of the report *)

\* a = b for two fractions.
SameValue(a, b) == a.sum * b.n = b.sum * a.n

\* C27: for every scheduler, workload and setting of dynamic weighting, the bar
\* of the plot is 100 * misses / rows of the group, misses being the rows with
\* deadline_met equal to 0, and the report has one block for the group with
\* the same miss rate; a group without rows has a bar of 0 and no block.
C27_PlotAndReportAgree ==
    dw_pc = "done" =>
        \A idx \in 1..Len(SCHEDULERS) : \A w \in 1..Len(WORKLOADS) :
        \A dw \in {"OFF", "ON"} :
            LET rows == dw_rows(df.rows, SCHEDULERS[idx], WORKLOADS[w], dw)
                bar == IF dw = "OFF" THEN dw_plot[idx].off_values[w]
                       ELSE dw_plot[idx].on_values[w]
                blocks == SelectSeq(summary_report,
                                    LAMBDA b : /\ b.scheduler = SCHEDULERS[idx]
                                               /\ b.workload = WORKLOADS[w]
                                               /\ b.dw = dw)
            IN IF Len(rows) = 0
               THEN SameValue(bar, value(0, 1)) /\ Len(blocks) = 0
               ELSE /\ SameValue(bar, value(100 * total_misses(rows), Len(rows)))
                    /\ Len(blocks) = 1
                    /\ SameValue(blocks[1].miss_rate, bar)

-----------------------------------------------------------------------------
(* C30: the result of _time_diff *)

\* C30: every call of _time_diff with a missing timestamp returns 0, and every
\* call with two timestamps HH:MM:SS.mmm returns a difference that is not
\* negative and below 24 hours.
C30_TimeDiffWithinADay ==
    \A k \in 1..Len(time_diffs) :
        IF time_diffs[k].time1.none \/ time_diffs[k].time2.none
        THEN time_diffs[k].returned = 0
        ELSE /\ time_diffs[k].returned >= 0
             /\ time_diffs[k].returned < 24 * 3600 * 1000

====
